---------------------------- MODULE Spec2Model ----------------------------
(***************************************************************************)
(* State-machine model of the osm-data-anomaly-detection tools             *)
(*   odad-find-colocated-nodes, odad-find-orphans,                         *)
(*   odad-find-multipolygon-problems and odad-find-relation-problems.      *)
(*                                                                         *)
(* Each tool has a specification of its own (SpecNodes, SpecColoc, ...).   *)
(* All of them share the variables below; a tool leaves the variables of   *)
(* the other tools at their initial value.                                 *)
(***************************************************************************)
EXTENDS Integers, Sequences, FiniteSets, TLC

VARIABLES
    pc,            \* position of main(): the pass that is running
    pos,           \* index of the next entity the Reader of that pass yields
    input,         \* the input file: [nodes, ways, relations]
    options,       \* options_type
    m_data,        \* Bucket::m_data of every bucket (in-memory buffer)
    files,         \* the bucket files locations_XX.dat that exist: bucket -> records
    m_mapping,     \* find_locations: the memory mappings that exist: bucket -> records
    locations,     \* result of find_locations / CheckHandler::m_locations
    m_node_ids,    \* CheckHandler::m_node_ids (IdSetSmall: a vector)
    m_nodes_done,  \* CheckHandler::m_nodes_done
    m_writer,      \* entities written to the output file, in order
    m_stats,       \* stats_type
    index,         \* odad-find-orphans: the index of referenced objects
    m_writers,     \* odad-find-orphans: ids written to n-, w-, r-orphans.osm.pbf
    m_layers,      \* odad-find-orphans: the features of orphan_nodes, orphan_ways
    argv,          \* the command line: [program, opts, operands]
    exit_status,   \* the argument of std::exit; -1 while the program runs
    relations_db,  \* RelationsManager: the relations kept, with their pending members
    member_db,     \* RelationsManager: the tracked way members and the ways stashed
    m_outputs,     \* Outputs: name -> Output
    resolved,      \* history: the member evaluations of complete_relation
    m_timestamp,   \* LastTimestampHandler::m_timestamp
    stats_db       \* the rows write_stats inserted: [date, key, value]

\* the variables of odad-find-colocated-nodes
colocVars == <<m_data, files, m_mapping, locations, m_node_ids, m_nodes_done,
              m_writer>>

\* the variables of odad-find-orphans
orphanVars == <<index, m_writers, m_layers>>

\* the variables of parse_command_line
cmdVars == <<argv, exit_status>>

\* the variables of the RelationsManager tools
managerVars == <<relations_db, member_db, m_outputs, resolved, m_timestamp,
                 stats_db>>

vars == <<pc, pos, input, options, m_stats, colocVars, orphanVars, cmdVars,
          managerVars>>

\* what the passes of odad-find-colocated-nodes never touch
notColoc == <<orphanVars, cmdVars, managerVars>>

\* what the passes of odad-find-orphans never touch
notOrphans == <<colocVars, cmdVars, managerVars>>

\* what parse_command_line never touches
notCmd == <<input, m_stats, colocVars, orphanVars, managerVars>>

\* the command line is parsed: the passes run
Running ==
    /\ argv = <<>>
    /\ exit_status = -1

\* no RelationsManager and no Outputs are constructed
NoManager ==
    /\ relations_db = <<>>
    /\ member_db = <<>>
    /\ m_outputs = <<>>
    /\ resolved = <<>>
    /\ m_timestamp = 0
    /\ stats_db = <<>>

---------------------------------------------------------------------------
(* Bounds of the model *)

\* largest number of Points in an input of SpecNodes with free coordinates
MaxNodes == 3
\* largest number of Points at one coordinate in an input of SpecNodes
MaxRun == 5
\* largest number of node references of a Line / members of a Group
MaxRefs == 2
\* Bucket::max_bucket_size is 512 * 1024 in the code; the model flushes a
\* buffer when it holds this many entries
max_bucket_size == 2

(* Program constants *)

\* osmium::end_of_time(), the value of before_time when no cutoff is given:
\* the largest timestamp (2^32 - 1 in the code; the largest integer of the
\* model checker, 2^31 - 1, stands for it)
end_of_time == 2147483647
\* number of buckets (1U << 8U)
num_buckets == 256

---------------------------------------------------------------------------
(* Value domains of the inputs *)

\* timestamps of entities; every timestamp of an entity is before end_of_time
Times == {0, 1}
\* cutoffs: a time, or end_of_time when neither -a nor -b is given
Cutoffs == {1, end_of_time}
\* coordinates (x, y): <<0,1>> and <<256,0>> share bucket 0, <<-1,0>> is in
\* bucket 255
Locs == {<<-1, 0>>, <<0, 1>>, <<256, 0>>}
\* ids of entities and of references; no two of them have the same absolute
\* value
Ids == {1, 2, 3, -4}

Buckets == 0 .. (num_buckets - 1)

\* osmium::OSMObject::positive_id, NodeRef::positive_ref,
\* RelationMember::positive_ref
positive_id(id) == IF id < 0 THEN -id ELSE id

---------------------------------------------------------------------------
(* Sequences *)

Range(s) == {s[i] : i \in 1 .. Len(s)}

SeqsUpTo(S, n) == UNION {[1 .. k -> S] : k \in 0 .. n}

NonEmptySeqsUpTo(S, n) == UNION {[1 .. k -> S] : k \in 1 .. n}

\* sequences without repetition
InjSeqs(S) == {s \in SeqsUpTo(S, Cardinality(S)) :
                 \A i, j \in 1 .. Len(s) : i # j => s[i] # s[j]}

\* number of elements of s satisfying membership in S
CountIn(s, S) == Cardinality({i \in 1 .. Len(s) : s[i] \in S})

\* osmium::Location::operator<
LocLess(a, b) == (a[1] = b[1] /\ a[2] < b[2]) \/ a[1] < b[1]

RECURSIVE InsertLoc(_, _)
InsertLoc(s, v) ==
    IF s = <<>> THEN <<v>>
    ELSE IF LocLess(v, Head(s)) THEN <<v>> \o s
    ELSE <<Head(s)>> \o InsertLoc(Tail(s), v)

\* std::sort on a range of osmium::Location
RECURSIVE SortLocs(_)
SortLocs(s) == IF s = <<>> THEN <<>> ELSE InsertLoc(SortLocs(Tail(s)), Head(s))

RECURSIVE InsertId(_, _)
InsertId(s, v) ==
    IF s = <<>> THEN <<v>>
    ELSE IF v < Head(s) THEN <<v>> \o s
    ELSE <<Head(s)>> \o InsertId(Tail(s), v)

\* std::sort on a range of ids
RECURSIVE SortIds(_)
SortIds(s) == IF s = <<>> THEN <<>> ELSE InsertId(SortIds(Tail(s)), Head(s))

\* std::unique followed by erase: drops every element equal to its predecessor
RECURSIVE Unique(_)
Unique(s) ==
    IF Len(s) <= 1 THEN s
    ELSE IF s[1] = s[2] THEN Unique(Tail(s))
    ELSE <<s[1]>> \o Unique(Tail(s))

\* std::lower_bound with operator< on ids, on the range [first, first + len)
RECURSIVE IdLowerBound(_, _, _, _)
IdLowerBound(s, first, len, v) ==
    IF len = 0 THEN first
    ELSE LET half == len \div 2
             mid == first + half
         IN IF s[mid] < v
            THEN IdLowerBound(s, mid + 1, len - half - 1, v)
            ELSE IdLowerBound(s, first, half, v)

\* std::lower_bound on locations
RECURSIVE LocLowerBound(_, _, _, _)
LocLowerBound(s, first, len, v) ==
    IF len = 0 THEN first
    ELSE LET half == len \div 2
             mid == first + half
         IN IF LocLess(s[mid], v)
            THEN LocLowerBound(s, mid + 1, len - half - 1, v)
            ELSE LocLowerBound(s, first, half, v)

\* std::upper_bound on locations
RECURSIVE LocUpperBound(_, _, _, _)
LocUpperBound(s, first, len, v) ==
    IF len = 0 THEN first
    ELSE LET half == len \div 2
             mid == first + half
         IN IF LocLess(v, s[mid])
            THEN LocUpperBound(s, first, half, v)
            ELSE LocUpperBound(s, mid + 1, len - half - 1, v)

---------------------------------------------------------------------------
(* odad-find-colocated-nodes: first pass, the bucket files *)

\* the bucket a location is appended to
bucket_num(loc) == loc[1] % num_buckets

\* Bucket::flush: appends the buffer to the file and clears it
flush(b, data, fs) ==
    IF data[b] = <<>>
    THEN [data |-> data, files |-> fs]
    ELSE [data |-> [data EXCEPT ![b] = <<>>],
          files |-> [fs EXCEPT ![b] = fs[b] \o data[b]]]

\* Bucket::set without the flush of the full buffer
set_no_flush(b, loc, data, fs) ==
    [data |-> [data EXCEPT ![b] = Append(data[b], loc)], files |-> fs]

\* Bucket::set: push_back, and flush when the buffer is full
set(b, loc, data, fs) ==
    LET pushed == [data EXCEPT ![b] = Append(data[b], loc)]
    IN IF Len(pushed[b]) = max_bucket_size
       THEN flush(b, pushed, fs)
       ELSE [data |-> pushed, files |-> fs]

\* no bucket file exists
NoFiles == [b \in {} |-> <<>>]

\* extract_locations, the construction of the buckets: Bucket::Bucket opens
\* every file with O_CREAT | O_TRUNC and reserves an empty buffer
ExtractOpen ==
    /\ pc = "start"
    /\ m_data' = [b \in Buckets |-> <<>>]
    /\ files' = [b \in Buckets |-> <<>>]
    /\ pc' = "extract"
    /\ pos' = 1
    /\ UNCHANGED <<input, options, locations, m_node_ids, m_nodes_done,
                   m_writer, m_stats>>
    /\ UNCHANGED <<m_mapping, notColoc>>

\* the time filter of extract_locations
passes_time_filter(node, opts) == node.timestamp < opts.before_time

\* extract_locations, one iteration of the loop over the nodes of the Reader
ExtractNode ==
    /\ pc = "extract"
    /\ pos <= Len(input.nodes)
    /\ LET node == input.nodes[pos]
           r == IF passes_time_filter(node, options)
                THEN set(bucket_num(node.location), node.location, m_data, files)
                ELSE [data |-> m_data, files |-> files]
       IN /\ m_data' = r.data
          /\ files' = r.files
    /\ pos' = pos + 1
    /\ UNCHANGED <<pc, input, options, locations, m_node_ids, m_nodes_done,
                   m_writer, m_stats>>
    /\ UNCHANGED <<m_mapping, notColoc>>

\* the loop "for (auto& bucket : buckets) bucket.flush()": flush changes
\* nothing but the buffer and the file of its own bucket
FlushAll(data, fs) ==
    [data |-> [b \in Buckets |-> flush(b, data, fs).data[b]],
     files |-> [b \in Buckets |-> flush(b, data, fs).files[b]]]

\* extract_locations, after the reader is closed: every bucket is flushed;
\* the function returns and the vector of buckets is destroyed (~Bucket
\* flushes once more, which finds the buffer empty, and closes the file)
ExtractFlush ==
    /\ pc = "extract"
    /\ pos > Len(input.nodes)
    /\ LET r == FlushAll(m_data, files)
       IN /\ m_data' = <<>>
          /\ files' = FlushAll(r.data, r.files).files
    /\ pc' = "find"
    /\ UNCHANGED <<pos, input, options, locations, m_node_ids, m_nodes_done,
                   m_writer, m_stats>>
    /\ UNCHANGED <<m_mapping, notColoc>>

\* the loop around std::adjacent_find over the sorted records of one bucket:
\* appends the first element of a pair of equal neighbours and goes on
\* behind the pair
RECURSIVE ScanPairs(_, _, _)
ScanPairs(m, it, acc) ==
    IF it >= Len(m) THEN acc
    ELSE IF m[it] = m[it + 1]
         THEN ScanPairs(m, it + 2, Append(acc, m[it]))
         ELSE ScanPairs(m, it + 1, acc)

\* the scan of a bucket file that is not sorted
ScanBucket_unsorted(records) ==
    IF Len(records) > 0 THEN ScanPairs(records, 1, <<>>) ELSE <<>>

\* find_locations, the body of the loop for one bucket file: what it
\* appends to the vector locations
ScanBucket(records) ==
    IF Len(records) > 0 THEN ScanPairs(SortLocs(records), 1, <<>>) ELSE <<>>

\* find_locations, the loop over the buckets lo .. hi in ascending order:
\* the vector locations after it
RECURSIVE ScanBuckets(_, _, _)
ScanBuckets(fs, lo, hi) ==
    IF lo = hi THEN ScanBucket(fs[lo])
    ELSE LET mid == (lo + hi) \div 2
         IN ScanBuckets(fs, lo, mid) \o ScanBuckets(fs, mid + 1, hi)

\* find_locations without the final std::unique
SortUnique_sort_only(acc) == SortLocs(acc)

\* the final std::sort, std::unique and erase of find_locations
SortUnique(acc) == Unique(SortLocs(acc))

\* find_locations
find_locations(fs) == SortUnique(ScanBuckets(fs, 0, num_buckets - 1))

FindLocations ==
    /\ pc = "find"
    /\ locations' = find_locations(files)
    /\ files' = NoFiles
    /\ m_stats' = [m_stats EXCEPT
                     !.locations_with_colocated_nodes = Len(locations')]
    /\ pc' = "check"
    /\ pos' = 1
    /\ UNCHANGED <<input, options, m_data, m_node_ids, m_nodes_done, m_writer>>
    /\ UNCHANGED <<m_mapping, notColoc>>

---------------------------------------------------------------------------
(* odad-find-colocated-nodes: find_locations, one bucket file at a time *)

\* find_locations, before the loop: the vector locations is empty and the
\* loop starts with bucket 0
FindBegin ==
    /\ pc = "find"
    /\ locations' = <<>>
    /\ pos' = 0
    /\ pc' = "open"
    /\ UNCHANGED <<input, options, m_data, files, m_mapping, m_node_ids,
                   m_nodes_done, m_writer, m_stats>>
    /\ UNCHANGED notColoc

\* find_locations, the head of the loop body: ::open of the file of bucket
\* pos (a file that does not exist makes it throw) and, when the file is
\* not empty, the private memory mapping of its records
OpenBucketFile ==
    /\ pc = "open"
    /\ pos < num_buckets
    /\ pos \in DOMAIN files
    /\ m_mapping' = IF Len(files[pos]) > 0
                    THEN [b \in DOMAIN m_mapping \cup {pos} |->
                             IF b = pos THEN files[pos] ELSE m_mapping[b]]
                    ELSE m_mapping
    /\ pc' = "scan"
    /\ UNCHANGED <<pos, input, options, m_data, files, locations, m_node_ids,
                   m_nodes_done, m_writer, m_stats>>
    /\ UNCHANGED notColoc

\* the rest of the loop body without ::unlink
ScanAndUnlink_no_unlink ==
    /\ pc = "scan"
    /\ locations' = locations \o
           ScanBucket(IF pos \in DOMAIN m_mapping THEN m_mapping[pos] ELSE <<>>)
    /\ m_mapping' = [b \in DOMAIN m_mapping \ {pos} |-> m_mapping[b]]
    /\ pos' = pos + 1
    /\ pc' = "open"
    /\ UNCHANGED <<input, options, m_data, files, m_node_ids, m_nodes_done,
                   m_writer, m_stats>>
    /\ UNCHANGED notColoc

\* find_locations, the rest of the loop body: the mapped records are sorted
\* and scanned for equal neighbours, the mapping ends with its block, the
\* file is closed and removed
ScanAndUnlink ==
    /\ pc = "scan"
    /\ locations' = locations \o
           ScanBucket(IF pos \in DOMAIN m_mapping THEN m_mapping[pos] ELSE <<>>)
    /\ m_mapping' = [b \in DOMAIN m_mapping \ {pos} |-> m_mapping[b]]
    /\ files' = [b \in DOMAIN files \ {pos} |-> files[b]]
    /\ pos' = pos + 1
    /\ pc' = "open"
    /\ UNCHANGED <<input, options, m_data, m_node_ids, m_nodes_done, m_writer,
                   m_stats>>
    /\ UNCHANGED notColoc

\* find_locations, after the loop: sort, unique, erase and return; main()
\* stores the size of the result and starts the second pass
FindReturn ==
    /\ pc = "open"
    /\ pos = num_buckets
    /\ locations' = SortUnique(locations)
    /\ m_stats' = [m_stats EXCEPT
                     !.locations_with_colocated_nodes = Len(locations')]
    /\ pc' = "check"
    /\ pos' = 1
    /\ UNCHANGED <<input, options, m_data, files, m_mapping, m_node_ids,
                   m_nodes_done, m_writer>>
    /\ UNCHANGED notColoc

---------------------------------------------------------------------------
(* odad-find-colocated-nodes: second pass, CheckHandler *)

\* the entities the Reader of the second pass (osm_entity_bits::nwr) yields:
\* the file holds its nodes, then its ways, then its relations
Stream(in) ==
    [i \in 1 .. Len(in.nodes) |-> [kind |-> "node", obj |-> in.nodes[i]]]
    \o [i \in 1 .. Len(in.ways) |-> [kind |-> "way", obj |-> in.ways[i]]]
    \o [i \in 1 .. Len(in.relations) |->
          [kind |-> "relation", obj |-> in.relations[i]]]

\* a lookup that takes any position before the end for a hit
in_locations_no_compare(locs, loc) ==
    LocLowerBound(locs, 1, Len(locs), loc) <= Len(locs)

\* std::equal_range(m_locations.begin(), m_locations.end(), loc) is not empty
in_locations(locs, loc) ==
    LocLowerBound(locs, 1, Len(locs), loc) # LocUpperBound(locs, 1, Len(locs), loc)

\* IdSetSmall::set: appends unless the id equals the last one appended
IdSetSmall_set(ids, id) ==
    IF ids = <<>> \/ ids[Len(ids)] # id THEN Append(ids, id) ELSE ids

\* IdSetSmall::sort_unique
IdSetSmall_sort_unique(ids) == Unique(SortIds(ids))

\* IdSetSmall::get_binary_search: std::binary_search on the vector as it is
get_binary_search(ids, id) ==
    LET i == IdLowerBound(ids, 1, Len(ids), id)
    IN i <= Len(ids) /\ ~(id < ids[i])

\* CheckHandler::node
CheckNode ==
    /\ pc = "check"
    /\ pos <= Len(Stream(input))
    /\ Stream(input)[pos].kind = "node"
    /\ LET node == Stream(input)[pos].obj
       IN IF in_locations(locations, node.location)
          THEN /\ m_node_ids' = IdSetSmall_set(m_node_ids, positive_id(node.id))
               /\ m_stats' = [m_stats EXCEPT
                                !.colocated_nodes = m_stats.colocated_nodes + 1]
               /\ m_writer' = Append(m_writer, <<"node", node.id>>)
          ELSE UNCHANGED <<m_node_ids, m_stats, m_writer>>
    /\ pos' = pos + 1
    /\ UNCHANGED <<pc, input, options, m_data, files, locations, m_nodes_done>>
    /\ UNCHANGED <<m_mapping, notColoc>>

\* the loop of CheckHandler::way: some node reference is in m_node_ids
way_references(ids, way) ==
    \E i \in 1 .. Len(way.nodes) :
        get_binary_search(ids, positive_id(way.nodes[i]))

\* CheckHandler::way
CheckWay ==
    /\ pc = "check"
    /\ pos <= Len(Stream(input))
    /\ Stream(input)[pos].kind = "way"
    /\ LET way == Stream(input)[pos].obj
           ids == IF ~m_nodes_done
                  THEN IdSetSmall_sort_unique(m_node_ids)
                  ELSE m_node_ids
       IN /\ m_nodes_done' = TRUE
          /\ m_node_ids' = ids
          /\ IF way_references(ids, way)
             THEN /\ m_stats' = [m_stats EXCEPT
                       !.ways_referencing_colocated_nodes =
                           m_stats.ways_referencing_colocated_nodes + 1]
                  /\ m_writer' = Append(m_writer, <<"way", way.id>>)
             ELSE UNCHANGED <<m_stats, m_writer>>
    /\ pos' = pos + 1
    /\ UNCHANGED <<pc, input, options, m_data, files, locations>>
    /\ UNCHANGED <<m_mapping, notColoc>>

\* the loop of CheckHandler::relation: some member of type node is in
\* m_node_ids
relation_references(ids, relation) ==
    \E i \in 1 .. Len(relation.members) :
        /\ relation.members[i].type = "node"
        /\ get_binary_search(ids, positive_id(relation.members[i].ref))

\* CheckHandler::relation without the break: every member that is a written
\* Point is counted
CheckRelation_no_break ==
    /\ pc = "check"
    /\ pos <= Len(Stream(input))
    /\ Stream(input)[pos].kind = "relation"
    /\ LET relation == Stream(input)[pos].obj
           found == {i \in 1 .. Len(relation.members) :
                        /\ relation.members[i].type = "node"
                        /\ get_binary_search(m_node_ids,
                               positive_id(relation.members[i].ref))}
       IN IF found # {}
          THEN /\ m_stats' = [m_stats EXCEPT
                    !.relations_referencing_colocated_nodes =
                        @ + Cardinality(found)]
               /\ m_writer' = Append(m_writer, <<"relation", relation.id>>)
          ELSE UNCHANGED <<m_stats, m_writer>>
    /\ pos' = pos + 1
    /\ UNCHANGED <<pc, input, options, m_data, files, locations, m_node_ids,
                   m_nodes_done>>
    /\ UNCHANGED <<m_mapping, notColoc>>

\* CheckHandler::relation
CheckRelation ==
    /\ pc = "check"
    /\ pos <= Len(Stream(input))
    /\ Stream(input)[pos].kind = "relation"
    /\ LET relation == Stream(input)[pos].obj
       IN IF relation_references(m_node_ids, relation)
          THEN /\ m_stats' = [m_stats EXCEPT
                    !.relations_referencing_colocated_nodes =
                        m_stats.relations_referencing_colocated_nodes + 1]
               /\ m_writer' = Append(m_writer, <<"relation", relation.id>>)
          ELSE UNCHANGED <<m_stats, m_writer>>
    /\ pos' = pos + 1
    /\ UNCHANGED <<pc, input, options, m_data, files, locations, m_node_ids,
                   m_nodes_done>>
    /\ UNCHANGED <<m_mapping, notColoc>>

\* main: the reader of the second pass is at its end; reader and writer are
\* closed and the statistics written
CheckDone ==
    /\ pc = "check"
    /\ pos > Len(Stream(input))
    /\ pc' = "done"
    /\ UNCHANGED <<pos, input, options, m_data, files, locations, m_node_ids,
                   m_nodes_done, m_writer, m_stats>>
    /\ UNCHANGED <<m_mapping, notColoc>>

---------------------------------------------------------------------------
(* odad-find-colocated-nodes: inputs and specifications *)

Node(id, ts, loc) == [id |-> id, timestamp |-> ts, location |-> loc]

Way(id, ts, nodes) == [id |-> id, timestamp |-> ts, nodes |-> nodes]

Member(type, ref) == [type |-> type, ref |-> ref]

Relation(id, ts, members) == [id |-> id, timestamp |-> ts, members |-> members]

\* inputs of Points only; the id of a Point is its place in the file
NodeFiles ==
    {[i \in 1 .. Len(s) |-> Node(i, s[i][1], s[i][2])] :
        s \in SeqsUpTo(Times \X Locs, MaxNodes)}

\* inputs of four and more Points that are all at the same coordinate
RunFiles ==
    {[i \in 1 .. n |-> Node(i, 0, <<0, 1>>)] : n \in (MaxNodes + 1) .. MaxRun}

\* Points P1, P2 at (10,20) and P3 at (30,40), changed 2020-01-01,
\* 2020-06-01 and 2021-01-01 (seconds since 1970)
ScenarioNodes ==
    <<Node(1, 1577836800, <<10, 20>>), Node(2, 1590969600, <<10, 20>>),
      Node(3, 1609459200, <<30, 40>>)>>

\* the state in which main() of odad-find-colocated-nodes starts the first
\* pass, once CheckHandler's and the writer's members have their initial value
ColocStart ==
    /\ pc = "start"
    /\ pos = 1
    /\ m_data = <<>>
    /\ files = NoFiles
    /\ locations = <<>>
    /\ m_node_ids = <<>>
    /\ m_nodes_done = FALSE
    /\ m_writer = <<>>
    /\ m_stats = [locations_with_colocated_nodes |-> 0,
                  colocated_nodes |-> 0,
                  ways_referencing_colocated_nodes |-> 0,
                  relations_referencing_colocated_nodes |-> 0]
    /\ index = <<>>
    /\ m_writers = <<>>
    /\ m_layers = <<>>
    /\ m_mapping = <<>>
    /\ Running
    /\ NoManager

InitNodes ==
    /\ \/ /\ input \in {[nodes |-> n, ways |-> <<>>, relations |-> <<>>] :
                           n \in NodeFiles \cup RunFiles}
          /\ options \in {[before_time |-> t] : t \in Cutoffs}
       \/ /\ input = [nodes |-> ScenarioNodes, ways |-> <<>>, relations |-> <<>>]
          /\ options = [before_time |-> end_of_time]
    /\ ColocStart

NextNodes ==
    \/ ExtractOpen
    \/ ExtractNode
    \/ ExtractFlush
    \/ FindLocations
    \/ CheckNode
    \/ CheckDone

\* odad-find-colocated-nodes on files that hold Points only
SpecNodes == InitNodes /\ [][NextNodes]_vars

\* the two coordinates of the Points of the inputs of SpecColoc
ColocLocs == {<<0, 1>>, <<256, 0>>}

\* the ids the Lines and Groups of the inputs of SpecColoc refer to
RefIds == {1, -4}

\* the ids of the Points of the inputs of SpecColoc
ColocIds == {1, 3, -4}

\* Points in any order of their ids
ColocNodes ==
    UNION {{[i \in 1 .. Len(ids) |-> Node(ids[i], 0, l[i])] :
               l \in [1 .. Len(ids) -> ColocLocs]} : ids \in InjSeqs(ColocIds)}

\* no Line, or one Line
ColocWays ==
    {<<>>} \cup {<<Way(1, 0, n)>> : n \in NonEmptySeqsUpTo(RefIds, MaxRefs)}

\* no Group, or one Group; its members are Points or a Line
ColocRelations ==
    {<<>>} \cup
    {<<Relation(1, 0, m)>> :
        m \in NonEmptySeqsUpTo({Member("node", r) : r \in RefIds}
                                 \cup {Member("way", 1)}, MaxRefs)}

InitColoc ==
    /\ input \in {[nodes |-> n, ways |-> w, relations |-> r] :
                     n \in ColocNodes, w \in ColocWays, r \in ColocRelations}
    /\ options = [before_time |-> end_of_time]
    /\ ColocStart

NextColoc ==
    \/ ExtractOpen
    \/ ExtractNode
    \/ ExtractFlush
    \/ FindLocations
    \/ CheckNode
    \/ CheckWay
    \/ CheckRelation
    \/ CheckDone

\* odad-find-colocated-nodes on files of Points, Lines and Groups
SpecColoc == InitColoc /\ [][NextColoc]_vars

---------------------------------------------------------------------------
(* Claims about odad-find-colocated-nodes *)

InSecondPass == pc \in {"check", "done"}

\* the Points that pass the time filter: those changed strictly before the
\* cutoff, all of them when no cutoff is given
PassingNodes ==
    {i \in 1 .. Len(input.nodes) :
        options.before_time = end_of_time
        \/ input.nodes[i].timestamp < options.before_time}

\* how many Points passing the time filter are at location l
Multiplicity(l) ==
    Cardinality({i \in PassingNodes : input.nodes[i].location = l})

AllLocs == {input.nodes[i].location : i \in 1 .. Len(input.nodes)}

\* the coordinates held by two or more Points passing the time filter
DuplicateLocs == {l \in AllLocs : Multiplicity(l) >= 2}

\* C1: extract_locations followed by find_locations returns exactly the
\* coordinates held by two or more Points changed strictly before the cutoff
\* (all Points without a cutoff), each exactly once and none of
\* multiplicity 1, whatever the order of the Points in the file.
C1_DuplicateSetExact ==
    InSecondPass =>
        /\ Range(locations) = DuplicateLocs
        /\ Len(locations) = Cardinality(DuplicateLocs)

\* two Points passing the cutoff at one coordinate, a third one at the same
\* coordinate filtered out by the cutoff: the coordinate is returned once
C1_Witness ==
    /\ InSecondPass
    /\ options.before_time # end_of_time
    /\ Len(input.nodes) = 3
    /\ \E l \in AllLocs : Multiplicity(l) = 2 /\ locations = <<l>>

\* the Points the second pass has handled so far
HandledNodes ==
    {i \in 1 .. Len(input.nodes) : pc = "done" \/ (pc = "check" /\ i < pos)}

Written(kind, id) == Cardinality({k \in 1 .. Len(m_writer) : m_writer[k] = <<kind, id>>})

\* C2: in the second pass a Point is written to the colocated output, and
\* counted in colocated_nodes, iff its coordinate is in the duplicate set
\* returned by find_locations; of P1(10,20), P2(10,20), P3(30,40) without
\* cutoff, P1 and P2 are written and P3 is not.
C2_NodeEmittedIffInSet ==
    InSecondPass =>
        /\ \A i \in HandledNodes :
              Written("node", input.nodes[i].id) =
                 IF input.nodes[i].location \in Range(locations) THEN 1 ELSE 0
        /\ m_stats.colocated_nodes =
              Cardinality({i \in HandledNodes :
                              input.nodes[i].location \in Range(locations)})
        /\ (pc = "done" /\ input.nodes = ScenarioNodes) =>
              m_writer = <<<<"node", 1>>, <<"node", 2>>>>

\* the scenario has run to its end
C2_Witness ==
    /\ pc = "done"
    /\ input.nodes = ScenarioNodes
    /\ locations = <<<<10, 20>>>>
    /\ m_stats.colocated_nodes = 2

NodeEmitted(id) == <<"node", id>> \in Range(m_writer)

\* C3 (as claimed): at the end of the second pass a Line is written, exactly
\* once, iff one of its node references is a written Point, and a Group is
\* written, exactly once, iff one of its members of kind Point is a written
\* Point; this for files without Lines and for Points in any order of ids.
C3_ReferencingWritten ==
    pc = "done" =>
        /\ \A i \in 1 .. Len(input.ways) :
              Written("way", input.ways[i].id) =
                 IF \E k \in 1 .. Len(input.ways[i].nodes) :
                       NodeEmitted(input.ways[i].nodes[k])
                 THEN 1 ELSE 0
        /\ \A i \in 1 .. Len(input.relations) :
              Written("relation", input.relations[i].id) =
                 IF \E k \in 1 .. Len(input.relations[i].members) :
                       /\ input.relations[i].members[k].type = "node"
                       /\ NodeEmitted(input.relations[i].members[k].ref)
                 THEN 1 ELSE 0

---------------------------------------------------------------------------
(* odad-find-orphans *)

\* bound: largest number of node references of a Line / members of a Group
\* in the inputs of SpecOrphans
MaxOrphanRefs == 1

\* a tag is <<key, value>>; a tag list is a sequence of tags
Tag(k, v) == <<k, v>>

ONode(id, ts, tags) == [id |-> id, timestamp |-> ts, tags |-> tags]

OWay(id, ts, tags, nodes) ==
    [id |-> id, timestamp |-> ts, tags |-> tags, nodes |-> nodes]

ORelation(id, ts, tags, members) ==
    [id |-> id, timestamp |-> ts, tags |-> tags, members |-> members]

\* the entities the Reader of the first pass yields
\* (osm_entity_bits::way | osm_entity_bits::relation)
ContainerStream(in) ==
    [i \in 1 .. Len(in.ways) |-> [kind |-> "way", obj |-> in.ways[i]]]
    \o [i \in 1 .. Len(in.relations) |->
          [kind |-> "relation", obj |-> in.relations[i]]]

\* IdSetDense::set
IdSetDense_set(idset, id) == idset \cup {id}

\* IdSetDense::get
IdSetDense_get(idset, id) == id \in idset

\* member_index entering every member in the index of relations
member_index_relation(member) == "relation"

\* the index a member of a relation is entered in: index(member.type())
member_index(member) == member.type

\* create_index_of_referenced_objects, the loop over the node references of
\* a way: entries i .. of the list
RECURSIVE index_way_nodes(_, _, _)
index_way_nodes(idx, nodes, i) ==
    IF i > Len(nodes) THEN idx
    ELSE index_way_nodes(
            [idx EXCEPT !.node = IdSetDense_set(@, positive_id(nodes[i]))],
            nodes, i + 1)

\* create_index_of_referenced_objects, the loop over the members of a relation
RECURSIVE index_relation_members(_, _, _)
index_relation_members(idx, members, i) ==
    IF i > Len(members) THEN idx
    ELSE index_relation_members(
            [idx EXCEPT ![member_index(members[i])] =
                           IdSetDense_set(@, positive_id(members[i].ref))],
            members, i + 1)

\* the body of the loop leaving out the objects that are too new
IndexObject_cutoff ==
    /\ pc = "index"
    /\ pos <= Len(ContainerStream(input))
    /\ LET e == ContainerStream(input)[pos]
       IN index' = IF e.obj.timestamp >= options.before_time THEN index
                   ELSE IF e.kind = "way"
                   THEN index_way_nodes(index, e.obj.nodes, 1)
                   ELSE index_relation_members(index, e.obj.members, 1)
    /\ pos' = pos + 1
    /\ UNCHANGED <<pc, input, options, m_stats, m_writers, m_layers>>
    /\ UNCHANGED notOrphans

\* create_index_of_referenced_objects, the body of the loop for one object
IndexObject ==
    /\ pc = "index"
    /\ pos <= Len(ContainerStream(input))
    /\ LET e == ContainerStream(input)[pos]
       IN index' = IF e.kind = "way"
                   THEN index_way_nodes(index, e.obj.nodes, 1)
                   ELSE index_relation_members(index, e.obj.members, 1)
    /\ pos' = pos + 1
    /\ UNCHANGED <<pc, input, options, m_stats, m_writers, m_layers>>
    /\ UNCHANGED notOrphans

\* the second pass opened while the first has objects left to read
IndexDone_early ==
    /\ pc = "index"
    /\ pos <= Len(ContainerStream(input))
    /\ pc' = "orphans"
    /\ pos' = 1
    /\ m_writers' = [node |-> <<>>, way |-> <<>>, relation |-> <<>>]
    /\ m_layers' = [orphan_nodes |-> <<>>, orphan_ways |-> <<>>]
    /\ UNCHANGED <<input, options, m_stats, index>>
    /\ UNCHANGED notOrphans

\* main: the index is returned; CheckHandler is constructed (its three
\* writers are opened) and the Reader of the second pass is opened
IndexDone ==
    /\ pc = "index"
    /\ pos > Len(ContainerStream(input))
    /\ pc' = "orphans"
    /\ pos' = 1
    /\ m_writers' = [node |-> <<>>, way |-> <<>>, relation |-> <<>>]
    /\ m_layers' = [orphan_nodes |-> <<>>, orphan_ways |-> <<>>]
    /\ UNCHANGED <<input, options, m_stats, index>>
    /\ UNCHANGED notOrphans

\* CheckHandler::m_filter: TagsFilter{false} with the rules
\* (true, "created_by") and (true, "source")
m_filter(tag) == tag[1] \in {"created_by", "source"}

\* osmium::tags::match_all_of(tags, m_filter)
match_all_of(tags) == \A i \in 1 .. Len(tags) : m_filter(tags[i])

\* the early return taken only for objects changed after the cutoff
too_new_strict(object, opts) == object.timestamp > opts.before_time

\* the first test of CheckHandler::node/way/relation: the early return on
\* the timestamp
too_new(object, opts) == object.timestamp >= opts.before_time

\* the third test of CheckHandler::node/way/relation: the tag policy
tag_policy(object, opts) ==
    \/ opts.untagged /\ object.tags = <<>>
    \/ opts.tagged /\ object.tags # <<>> /\ match_all_of(object.tags)

\* CheckHandler::node/way/relation: whether the object is written
is_orphan(kind, object, idx, opts) ==
    IF too_new(object, opts) THEN FALSE
    ELSE IF IdSetDense_get(idx[kind], positive_id(object.id)) THEN FALSE
    ELSE tag_policy(object, opts)

\* CheckHandler::node entering the id of the node in the index
OrphanNode_set ==
    /\ pc = "orphans"
    /\ pos <= Len(Stream(input))
    /\ Stream(input)[pos].kind = "node"
    /\ index' = [index EXCEPT !.node =
                    IdSetDense_set(@, positive_id(Stream(input)[pos].obj.id))]
    /\ pos' = pos + 1
    /\ UNCHANGED <<pc, input, options, m_writers, m_stats, m_layers>>
    /\ UNCHANGED notOrphans

\* CheckHandler::node
OrphanNode ==
    /\ pc = "orphans"
    /\ pos <= Len(Stream(input))
    /\ Stream(input)[pos].kind = "node"
    /\ LET node == Stream(input)[pos].obj
       IN IF is_orphan("node", node, index, options)
          THEN /\ m_writers' = [m_writers EXCEPT !.node = Append(@, node.id)]
               /\ m_stats' = [m_stats EXCEPT !.orphan_nodes = @ + 1]
               /\ m_layers' = [m_layers EXCEPT !.orphan_nodes =
                      Append(@, [node_id |-> node.id,
                                 timestamp |-> node.timestamp])]
          ELSE UNCHANGED <<m_writers, m_stats, m_layers>>
    /\ pos' = pos + 1
    /\ UNCHANGED <<pc, input, options, index>>
    /\ UNCHANGED notOrphans

\* create_linestring that never throws
geometry_error_never(way) == FALSE

\* m_factory.create_linestring throws osmium::geometry_error: the way has
\* fewer than two different points in a row
geometry_error(way) ==
    \A i \in 1 .. Len(way.nodes) : way.nodes[i] = way.nodes[1]

\* the try block of CheckHandler::way: the feature of the way is added to
\* the layer orphan_ways unless create_linestring throws a geometry_error
way_feature(layers, way) ==
    IF geometry_error(way) THEN layers
    ELSE [layers EXCEPT !.orphan_ways =
             Append(@, [way_id |-> way.id, timestamp |-> way.timestamp])]

\* CheckHandler::way
OrphanWay ==
    /\ pc = "orphans"
    /\ pos <= Len(Stream(input))
    /\ Stream(input)[pos].kind = "way"
    /\ LET way == Stream(input)[pos].obj
       IN IF is_orphan("way", way, index, options)
          THEN /\ m_writers' = [m_writers EXCEPT !.way = Append(@, way.id)]
               /\ m_stats' = [m_stats EXCEPT !.orphan_ways = @ + 1]
               /\ m_layers' = way_feature(m_layers, way)
          ELSE UNCHANGED <<m_writers, m_stats, m_layers>>
    /\ pos' = pos + 1
    /\ UNCHANGED <<pc, input, options, index>>
    /\ UNCHANGED notOrphans

\* CheckHandler::relation
OrphanRelation ==
    /\ pc = "orphans"
    /\ pos <= Len(Stream(input))
    /\ Stream(input)[pos].kind = "relation"
    /\ LET relation == Stream(input)[pos].obj
       IN IF is_orphan("relation", relation, index, options)
          THEN /\ m_writers' = [m_writers EXCEPT
                                  !.relation = Append(@, relation.id)]
               /\ m_stats' = [m_stats EXCEPT !.orphan_relations = @ + 1]
          ELSE UNCHANGED <<m_writers, m_stats>>
    /\ UNCHANGED m_layers
    /\ pos' = pos + 1
    /\ UNCHANGED <<pc, input, options, index>>
    /\ UNCHANGED notOrphans

\* main: the Reader of the second pass is at its end; the handler and the
\* reader are closed and the statistics written
OrphansDone ==
    /\ pc = "orphans"
    /\ pos > Len(Stream(input))
    /\ pc' = "done"
    /\ UNCHANGED <<pos, input, options, m_stats, index, m_writers, m_layers>>
    /\ UNCHANGED notOrphans

(* inputs *)

\* no tag; tags with ignorable keys only; an ignorable and another key
OrphanTags ==
    {<<>>,
     <<Tag("created_by", "JOSM"), Tag("source", "survey")>>,
     <<Tag("source", "survey"), Tag("name", "A")>>}

\* the members of the Groups of the inputs; Group 1 may list itself
OrphanMembers ==
    {Member("node", 1), Member("node", -4), Member("way", 1),
     Member("relation", 1)}

\* files of at most one Point, one Line and one Group, all of them changed
\* at time 0 and without tags
PlainFiles ==
    {[nodes |-> n, ways |-> w, relations |-> r] :
        n \in {<<>>} \cup {<<ONode(i, 0, <<>>)>> : i \in RefIds},
        w \in {<<>>} \cup {<<OWay(1, 0, <<>>, refs)>> :
                              refs \in NonEmptySeqsUpTo(RefIds, MaxOrphanRefs)},
        r \in {<<>>} \cup {<<ORelation(1, 0, <<>>, m)>> :
                              m \in NonEmptySeqsUpTo(OrphanMembers, MaxOrphanRefs)}}

\* file f with timestamp and tags of its k-th entity of the given kind replaced
WithAttributes(f, kind, k, ts, tags) ==
    IF k > Len(f[kind]) THEN f
    ELSE [f EXCEPT ![kind][k].timestamp = ts, ![kind][k].tags = tags]

\* the files of PlainFiles, and those that differ from one of them in the
\* timestamp and the tags of one entity
OrphanFiles ==
    PlainFiles \cup
    UNION {{WithAttributes(f, kind, 1, ts, tags) :
               ts \in Times, tags \in OrphanTags} :
           f \in PlainFiles,
           kind \in {"nodes", "ways", "relations"}}

\* Line L1 with the Points 1 and 2, Group G1 with the member L1, and the
\* Points 1, 2, 3, none of them tagged
OrphanScenario ==
    [nodes |-> <<ONode(1, 0, <<>>), ONode(2, 0, <<>>), ONode(3, 0, <<>>)>>,
     ways |-> <<OWay(1, 0, <<Tag("highway", "path")>>, <<1, 2>>)>>,
     relations |-> <<ORelation(1, 0, <<Tag("type", "route")>>,
                               <<Member("way", 1)>>)>>]

\* files of two Lines without tags: the Points 1 and 2 are at different
\* places, so the Lines <<3>> and <<1, 1>> have no linestring
GeometryFiles ==
    {[nodes |-> <<>>,
      ways |-> <<OWay(1, 0, <<>>, a), OWay(2, 0, <<>>, b)>>,
      relations |-> <<>>] :
        a \in {<<1, 2>>, <<3>>, <<1, 1>>}, b \in {<<1, 2>>, <<3>>, <<1, 1>>}}

\* options_type after parse_command_line: -u and -U not both given
OrphanOptions ==
    {[before_time |-> t, untagged |-> u, tagged |-> g] :
        t \in Cutoffs, u \in BOOLEAN, g \in BOOLEAN} \ 
    {[before_time |-> t, untagged |-> FALSE, tagged |-> FALSE] : t \in Cutoffs}

\* the options when no option is given
DefaultOptions == [before_time |-> end_of_time, untagged |-> TRUE, tagged |-> TRUE]

\* the state in which main() of odad-find-orphans starts the first pass
InitOrphans ==
    /\ \/ /\ input \in OrphanFiles \cup GeometryFiles
          /\ options \in OrphanOptions
       \/ /\ input = OrphanScenario
          /\ options = DefaultOptions
    /\ pc = "index"
    /\ pos = 1
    /\ index = [node |-> {}, way |-> {}, relation |-> {}]
    /\ m_writers = <<>>
    /\ m_layers = <<>>
    /\ m_mapping = <<>>
    /\ m_stats = [orphan_nodes |-> 0, orphan_ways |-> 0, orphan_relations |-> 0]
    /\ m_data = <<>>
    /\ files = NoFiles
    /\ locations = <<>>
    /\ m_node_ids = <<>>
    /\ m_nodes_done = FALSE
    /\ m_writer = <<>>
    /\ Running
    /\ NoManager

NextOrphans ==
    \/ IndexObject
    \/ IndexDone
    \/ OrphanNode
    \/ OrphanWay
    \/ OrphanRelation
    \/ OrphansDone

\* odad-find-orphans
SpecOrphans == InitOrphans /\ [][NextOrphans]_vars

(* Claims about odad-find-orphans *)

IndexBuilt == pc \in {"orphans", "done"}

Kinds == {"node", "way", "relation"}

\* some Line of the file lists id as a node reference
ListedByWay(id) ==
    \E i \in 1 .. Len(input.ways) : id \in Range(input.ways[i].nodes)

\* some Group of the file lists (kind, id) as a member
ListedByRelation(kind, id) ==
    \E i \in 1 .. Len(input.relations) :
        Member(kind, id) \in Range(input.relations[i].members)

Listed(kind, id) ==
    (kind = "node" /\ ListedByWay(id)) \/ ListedByRelation(kind, id)

\* C4: after create_index_of_referenced_objects has read the whole file, for
\* every kind k and every id i the index of k holds the positive id of i iff
\* some Line lists i as a node reference (k = Point) or some Group lists
\* (k, i) as a member, also for ids that are the id of no entity of the file;
\* the index holds nothing else.
C4_IndexExact ==
    IndexBuilt =>
        \A k \in Kinds :
            /\ \A i \in Ids : positive_id(i) \in index[k] <=> Listed(k, i)
            /\ index[k] \subseteq {positive_id(i) : i \in Ids}

\* a Line that is referenced by a Group and is not in the file, and a Point
\* of negative id referenced by a Line
C4_Witness ==
    /\ IndexBuilt
    /\ input.ways # <<>>
    /\ input.nodes = <<>>
    /\ 4 \in index.node
    /\ 1 \in index.relation
    /\ index.way = {}

\* the entities the second pass has handled so far
HandledEntities ==
    {i \in 1 .. Len(Stream(input)) : pc = "done" \/ (pc = "orphans" /\ i < pos)}

IgnorableKeys == {"created_by", "source"}

\* the three conditions of an orphan
Qualifies(kind, object) ==
    /\ positive_id(object.id) \notin index[kind]
    /\ object.timestamp < options.before_time
    /\ \/ options.untagged /\ Len(object.tags) = 0
       \/ /\ options.tagged
          /\ Len(object.tags) >= 1
          /\ \A t \in Range(object.tags) : t[1] \in IgnorableKeys

\* how often id was written to the orphan output of kind
WrittenOrphan(kind, id) ==
    Cardinality({k \in 1 .. Len(m_writers[kind]) : m_writers[kind][k] = id})

StatOf(kind) ==
    IF kind = "node" THEN m_stats.orphan_nodes
    ELSE IF kind = "way" THEN m_stats.orphan_ways
    ELSE m_stats.orphan_relations

\* C5: an entity of any kind is written to the orphan output of its kind, and
\* counted, iff its positive id is not in the reference index of its kind,
\* its timestamp is strictly before the cutoff, and it is untagged under the
\* untagged policy or tagged with keys of {created_by, source} only under
\* the tagged policy.  An untagged Point referenced by a Line is never
\* written; the untagged unreferenced Point 3 of the scenario is written
\* under the default options and the Points 1 and 2 are not.
C5_OrphanIffQualifies ==
    pc \in {"orphans", "done"} =>
        /\ \A i \in HandledEntities :
              LET e == Stream(input)[i]
              IN WrittenOrphan(e.kind, e.obj.id) =
                    IF Qualifies(e.kind, e.obj) THEN 1 ELSE 0
        /\ \A k \in Kinds :
              StatOf(k) = Len(m_writers[k])
              /\ Len(m_writers[k]) =
                   Cardinality({i \in HandledEntities :
                                  /\ Stream(input)[i].kind = k
                                  /\ Qualifies(k, Stream(input)[i].obj)})
        /\ \A i \in HandledEntities :
              LET e == Stream(input)[i]
              IN (e.kind = "node" /\ e.obj.tags = <<>> /\ ListedByWay(e.obj.id))
                    => WrittenOrphan("node", e.obj.id) = 0
        /\ (pc = "done" /\ input = OrphanScenario) => m_writers.node = <<3>>

\* the scenario has run to its end: Point 3 is the only orphan
C5_Witness ==
    /\ pc = "done"
    /\ input = OrphanScenario
    /\ m_stats = [orphan_nodes |-> 1, orphan_ways |-> 0, orphan_relations |-> 0]
    /\ index.node = {1, 2}

---------------------------------------------------------------------------
(* parse_command_line of odad-find-orphans and odad-find-colocated-nodes *)

\* bound: largest number of options on the command line
MaxArgs == 3

Orphans == "odad-find-orphans"

Colocated == "odad-find-colocated-nodes"

\* the option characters getopt_long accepts: "a:b:hquU" and "a:b:hq"
optstring(program) ==
    IF program = Orphans THEN {"a", "b", "h", "q", "u", "U"}
    ELSE {"a", "b", "h", "q"}

\* getopt_long: the option character, or '?' for an option it does not know
getopt_long(program, token) ==
    IF token.opt \in optstring(program) THEN token.opt ELSE "?"

\* options_type of the program with its default member initializers
InitialOptions(program) ==
    IF program = Orphans
    THEN [before_time |-> end_of_time, verbose |-> TRUE,
          untagged |-> TRUE, tagged |-> TRUE]
    ELSE [before_time |-> end_of_time, verbose |-> TRUE]

\* the test in front of the assignment of before_time in case 'a' and 'b'
cutoff_given(opts) == opts.before_time # end_of_time

\* the switch of parse_command_line on the option c with argument arg (the
\* timestamp that build_timestamp, std::time - days or osmium::Timestamp make
\* of optarg): the options after it and the exit status (-1: no exit)
switch_option(program, c, arg, opts) ==
    IF c \in {"a", "b"}
    THEN IF cutoff_given(opts)
         THEN [options |-> opts, exit |-> 2]
         ELSE [options |-> [opts EXCEPT !.before_time = arg], exit |-> -1]
    ELSE IF c = "h" THEN [options |-> opts, exit |-> 0]
    ELSE IF c = "q" THEN [options |-> [opts EXCEPT !.verbose = FALSE], exit |-> -1]
    ELSE IF c = "u" /\ program = Orphans
         THEN [options |-> [opts EXCEPT !.tagged = FALSE], exit |-> -1]
    ELSE IF c = "U" /\ program = Orphans
         THEN [options |-> [opts EXCEPT !.untagged = FALSE], exit |-> -1]
    ELSE [options |-> opts, exit |-> 2]

\* parse_command_line, one iteration of the loop around getopt_long
ParseOption ==
    /\ pc = "parse"
    /\ pos <= Len(argv.opts)
    /\ LET r == switch_option(argv.program,
                              getopt_long(argv.program, argv.opts[pos]),
                              argv.opts[pos].arg, options)
       IN /\ options' = r.options
          /\ exit_status' = r.exit
          /\ pc' = IF r.exit = -1 THEN "parse" ELSE "exit"
    /\ pos' = pos + 1
    /\ UNCHANGED argv
    /\ UNCHANGED notCmd

\* the test of odad-find-orphans after the loop: neither policy selected
no_policy(program, opts) ==
    program = Orphans /\ ~opts.tagged /\ ~opts.untagged

\* parse_command_line after the loop (getopt_long returned -1): the exit
\* status, -1 when the options are returned to main
after_options(program, opts, operands) ==
    IF no_policy(program, opts) THEN 2
    ELSE IF operands # 2 THEN 2
    ELSE -1

ParseEnd ==
    /\ pc = "parse"
    /\ pos > Len(argv.opts)
    /\ exit_status' = after_options(argv.program, options, argv.operands)
    /\ pc' = IF exit_status' = -1 THEN "main" ELSE "exit"
    /\ UNCHANGED <<pos, options, argv>>
    /\ UNCHANGED notCmd

\* main after parse_command_line has returned: the input file and the output
\* files are opened and the passes run
MainRun ==
    /\ pc = "main"
    /\ pc' = "passes"
    /\ UNCHANGED <<pos, options, argv, exit_status>>
    /\ UNCHANGED notCmd

\* the timestamps an argument of -a or -b can stand for
CutoffArgs == {1, end_of_time}

Option(c, arg) == [opt |-> c, arg |-> arg]

\* the options of a command line; "x" is an option neither program knows
Tokens ==
    {Option(c, t) : c \in {"a", "b"}, t \in CutoffArgs}
    \cup {Option(c, 0) : c \in {"h", "q", "u", "U", "x"}}

\* main() is entered
InitCmd ==
    /\ argv \in {[program |-> p, opts |-> o, operands |-> n] :
                    p \in {Orphans, Colocated},
                    o \in SeqsUpTo(Tokens, MaxArgs),
                    n \in {1, 2}}
    /\ options = InitialOptions(argv.program)
    /\ exit_status = -1
    /\ pc = "parse"
    /\ pos = 1
    /\ input = <<>>
    /\ m_stats = <<>>
    /\ index = <<>>
    /\ m_writers = <<>>
    /\ m_layers = <<>>
    /\ m_mapping = <<>>
    /\ m_data = <<>>
    /\ files = NoFiles
    /\ locations = <<>>
    /\ m_node_ids = <<>>
    /\ m_nodes_done = FALSE
    /\ m_writer = <<>>
    /\ NoManager

NextCmd ==
    \/ ParseOption
    \/ ParseEnd
    \/ MainRun

\* the command line handling of odad-find-orphans and
\* odad-find-colocated-nodes
SpecCmd == InitCmd /\ [][NextCmd]_vars

(* Claims about parse_command_line *)

HasOption(c) == \E i \in 1 .. Len(argv.opts) : argv.opts[i].opt = c

\* both cutoff forms are given, or -u and -U are both given to
\* odad-find-orphans
InvalidConfiguration ==
    \/ HasOption("a") /\ HasOption("b")
    \/ argv.program = Orphans /\ HasOption("u") /\ HasOption("U")

\* C6 (as claimed): with both cutoff forms on the command line, in either
\* order, or with -u and -U given to odad-find-orphans, parse_command_line
\* ends the run with a non-zero exit status; no pass runs and no output file
\* is opened.
C6_InvalidConfigurationFatal ==
    InvalidConfiguration =>
        /\ pc \in {"parse", "exit"}
        /\ pc = "exit" => exit_status > 0

---------------------------------------------------------------------------
(* odad-find-multipolygon-problems: the comparison of tag lists *)

\* bound: largest number of tags of a tag list in the inputs of SpecTags
MaxTags == 2

\* MPFilter: TagsFilter(true) with the rules that exclude four keys
MPFilter(tag) == tag[1] \notin {"type", "created_by", "source", "note"}

\* the tags a boost::filter_iterator over MPFilter yields, in the order of
\* the tag list
filter_iterator(tags) == SelectSeq(tags, MPFilter)

\* KeyCompare::operator()
KeyCompare(lhs, rhs) == lhs[1] = rhs[1]

\* osmium::Tag operator==: key and value are equal
TagEqual(lhs, rhs) == lhs[1] = rhs[1] /\ lhs[2] = rhs[2]

\* std::equal(first1, last1, first2) over w and r with the comparison by
\* keys only or by keys and values: the set of results the call can have.
\* The second range has no end; when w is longer than r and no difference
\* shows up within r, the call reads past the end of r and its result is
\* not defined.
std_equal(w, r, keys_only) ==
    LET n == IF Len(w) < Len(r) THEN Len(w) ELSE Len(r)
        eq(i) == IF keys_only THEN KeyCompare(w[i], r[i])
                 ELSE TagEqual(w[i], r[i])
    IN IF \E i \in 1 .. n : ~eq(i) THEN {FALSE}
       ELSE IF Len(w) <= Len(r) THEN {TRUE}
       ELSE {TRUE, FALSE}

\* CheckMPManager::compare_tags
compare_tags(rtags, wtags) ==
    LET d == Len(filter_iterator(wtags))
    IN /\ d > 0
       /\ \E e \in std_equal(filter_iterator(wtags), filter_iterator(rtags), FALSE) :
             e /\ d = Len(filter_iterator(rtags))

\* CheckMPManager::conflicting_tags
conflicting_tags(rtags, wtags) ==
    LET d == Len(filter_iterator(wtags))
    IN /\ d > 0
       /\ \E e \in std_equal(filter_iterator(wtags), filter_iterator(rtags), TRUE) :
             e /\ d = Len(filter_iterator(rtags))

\* the keys and values of the tags of SpecTags
TagKeys == {"type", "note", "landuse", "name"}

TagValues == {"forest", "meadow"}

\* the tag lists of at most n tags, no key twice
TagLists(n) ==
    {t \in SeqsUpTo(TagKeys \X TagValues, n) :
        \A i, j \in 1 .. Len(t) : i # j => t[i][1] # t[j][1]}

\* a call of compare_tags and of conflicting_tags is about to be made with
\* the tags of a relation and of a way
InitTags ==
    /\ input \in {[rtags |-> r, wtags |-> w] :
                     r \in TagLists(MaxTags), w \in TagLists(MaxTags)}
    /\ pc = "tags"
    /\ pos = 1
    /\ options = <<>>
    /\ m_stats = <<>>
    /\ index = <<>>
    /\ m_writers = <<>>
    /\ m_layers = <<>>
    /\ m_mapping = <<>>
    /\ m_data = <<>>
    /\ files = <<>>
    /\ locations = <<>>
    /\ m_node_ids = <<>>
    /\ m_nodes_done = FALSE
    /\ m_writer = <<>>
    /\ argv = <<>>
    /\ exit_status = -1
    /\ relations_db = <<>>
    /\ member_db = <<>>
    /\ m_outputs = <<>>
    /\ resolved = <<>>
    /\ m_timestamp = 0
    /\ stats_db = <<>>

\* the two comparisons as complete_relation makes them for one member
CompareTags ==
    /\ pc = "tags"
    /\ resolved' = <<[same_tags |-> compare_tags(input.rtags, input.wtags),
                     conflicting_tags |->
                         conflicting_tags(input.rtags, input.wtags)]>>
    /\ pc' = "compared"
    /\ UNCHANGED <<pos, input, options, m_stats, colocVars, orphanVars,
                   cmdVars, relations_db, member_db, m_outputs,
                   m_timestamp, stats_db>>

NextTags == CompareTags

\* compare_tags and conflicting_tags on every pair of tag lists
SpecTags == InitTags /\ [][NextTags]_vars

(* Claims about compare_tags *)

\* the tag list as a mapping: the set of its <<key, value>> pairs without
\* the keys type, created_by, source and note
FilteredMapping(tags) ==
    {t \in Range(tags) : t[1] \notin {"type", "created_by", "source", "note"}}

\* C8 (as claimed): compare_tags returns true if and only if the tags of the
\* member without the keys type, created_by, source and note are non-empty
\* and equal, as a key-to-value mapping with the same number of entries, to
\* the tags of the group without these keys.
C8_CompareTagsIffSameMapping ==
    pc = "compared" =>
        (resolved[1].same_tags <=>
            /\ FilteredMapping(input.wtags) # {}
            /\ FilteredMapping(input.wtags) = FilteredMapping(input.rtags))

---------------------------------------------------------------------------
(* odad-find-multipolygon-problems: CheckMPManager and Outputs             *)
(*                                                                         *)
(* osmium::relations::RelationsManager keeps a copy of every relation that *)
(* new_relation accepts (relations database) and one element per member   *)
(* that new_member accepts (members database).  A way that is a tracked    *)
(* member is stashed when the way pass reads it; a relation is handed to   *)
(* complete_relation by the way that brings its last pending member.       *)

\* bound: largest number of members of the first relation of an input
MaxMembers == 2

MPWay(id, ts, tags, nodes) ==
    [id |-> id, timestamp |-> ts, tags |-> tags, nodes |-> nodes]

MPMember(type, ref, role) == [type |-> type, ref |-> ref, role |-> role]

MPRelation(id, ts, tags, members) ==
    [id |-> id, timestamp |-> ts, tags |-> tags, members |-> members]

\* stats_type: every counter is zero
ZeroStats ==
    [multipolygon_relations |-> 0,
     multipolygon_relations_without_tags |-> 0,
     multipolygon_relation_members |-> 0,
     multipolygon_relation_way_members |-> 0,
     multipolygon_relation_members_with_same_tags |-> 0,
     multipolygon_relation_members_with_conflicting_tags |-> 0]

\* ++m_stats.field
Inc(stats, field) == [stats EXCEPT ![field] = @ + 1]

\* Output::Output: no relation written, nothing indexed, no marks
NewOutput(points, lines) ==
    [points |-> points, lines |-> lines,
     m_counter |-> 0,
     m_writer_rel |-> <<>>,
     m_writer_all |-> <<>>,
     m_layer_points |-> <<>>,
     m_layer_lines |-> <<>>,
     m_id_maps |-> [k \in {"node", "way", "relation"} |-> <<>>],
     m_marks |-> <<>>]

SameTags == "multipolygon_relations_with_same_tags"

SameKeys == "multipolygon_relations_with_same_keys"

\* main(): the two outputs.add_output calls
AddOutputs ==
    [name \in {SameTags, SameKeys} |-> NewOutput(FALSE, TRUE)]

\* Output::add_members_to_index
add_members_to_index(id_maps, relation) ==
    [k \in DOMAIN id_maps |->
        id_maps[k] \o
        [i \in 1 .. Len(SelectSeq(relation.members, LAMBDA m : m.type = k)) |->
            <<positive_id(SelectSeq(relation.members, LAMBDA m : m.type = k)[i].ref),
              positive_id(relation.id)>>]]

\* m_marks.emplace(relation.positive_id(), marks): an entry that exists is
\* kept
emplace(m_marks, id, marks) ==
    [k \in DOMAIN m_marks \cup {id} |->
        IF k \in DOMAIN m_marks THEN m_marks[k] ELSE marks]

\* Output::add
Output_add(output, relation, increment, marks) ==
    [output EXCEPT
        !.m_counter = @ + increment,
        !.m_writer_rel = Append(@, relation),
        !.m_id_maps = add_members_to_index(@, relation),
        !.m_marks = IF marks # <<>>
                    THEN emplace(@, positive_id(relation.id), marks)
                    ELSE @]

\* mem_rel_mapping::operator<
MappingLess(a, b) == a[1] < b[1] \/ (a[1] = b[1] /\ a[2] < b[2])

InsertMapping(s, v) ==
    LET k == Cardinality({i \in 1 .. Len(s) : MappingLess(s[i], v)})
    IN SubSeq(s, 1, k) \o <<v>> \o SubSeq(s, k + 1, Len(s))

RECURSIVE SortMappings(_)
SortMappings(s) ==
    IF s = <<>> THEN <<>> ELSE InsertMapping(SortMappings(Tail(s)), Head(s))

\* Output::prepare without the std::sort calls
Output_prepare_unsorted(output) == output

\* Output::prepare
Output_prepare(output) ==
    [output EXCEPT !.m_id_maps = [k \in DOMAIN @ |-> SortMappings(@[k])]]

\* osmium::TagList::has_tag: the first tag with the key has the value
has_tag(tags, key, value) ==
    \E i \in 1 .. Len(tags) :
        /\ tags[i] = Tag(key, value)
        /\ \A j \in 1 .. i - 1 : tags[j][1] # key

\* match_none_of that holds for no tag list
match_none_of_never(tags) == FALSE

\* osmium::tags::match_none_of(tags, m_filter)
match_none_of(tags) == \A i \in 1 .. Len(tags) : ~MPFilter(tags[i])

\* osmium::Way::is_closed
is_closed(way) == way.nodes[1] = way.nodes[Len(way.nodes)]

\* CheckMPManager::new_relation, the test
new_relation(relation) == has_tag(relation.tags, "type", "multipolygon")

\* new_member accepting only the members with the role outer
new_member_outer(member) == member.type = "way" /\ member.role = "outer"

\* CheckMPManager::new_member, the test
new_member(member) == member.type = "way"

\* the indexes of the members of the kind
CountMembers(relation, P(_)) ==
    Cardinality({i \in 1 .. Len(relation.members) : P(relation.members[i])})

\* RelationsManager::relation for a relation new_relation accepts: the copy
\* in the relations database, with the reference of every member new_member
\* rejects set to 0
db_copy(relation) ==
    [relation EXCEPT !.members =
        [i \in 1 .. Len(relation.members) |->
            IF new_member(relation.members[i]) THEN relation.members[i]
            ELSE [relation.members[i] EXCEPT !.ref = 0]]]

\* the elements MembersDatabase::track adds for the relation at position
\* rpos of the relations database, in the order of the members
track(relation, rpos) ==
    LET idx == SelectSeq([i \in 1 .. Len(relation.members) |-> i],
                         LAMBDA i : new_member(relation.members[i]))
    IN [k \in 1 .. Len(idx) |->
           [member_id |-> relation.members[idx[k]].ref,
            relation_pos |-> rpos,
            member_num |-> idx[k] - 1,
            removed |-> FALSE]]

\* RelationsManager::relation with the calls of new_relation and new_member:
\* one relation of the relation pass
ReadRelation ==
    /\ pc = "relations"
    /\ pos <= Len(input.relations)
    /\ LET relation == input.relations[pos]
           rpos == Len(relations_db) + 1
       IN IF new_relation(relation)
          THEN /\ relations_db' =
                     Append(relations_db,
                            [relation |-> db_copy(relation),
                             members |-> Len(track(relation, rpos)),
                             removed |-> FALSE])
               /\ member_db' = [member_db EXCEPT
                                   !.elements = @ \o track(relation, rpos)]
               /\ m_stats' =
                     [m_stats EXCEPT
                         !.multipolygon_relations = @ + 1,
                         !.multipolygon_relation_members =
                             @ + Len(relation.members),
                         !.multipolygon_relation_way_members =
                             @ + CountMembers(relation, new_member)]
          ELSE UNCHANGED <<relations_db, member_db, m_stats>>
    /\ pos' = pos + 1
    /\ UNCHANGED <<pc, input, options, stats_db, m_outputs, resolved, m_timestamp>>
    /\ UNCHANGED <<colocVars, orphanVars, cmdVars>>

\* the order of the elements of the members database
ElementLess(a, b) ==
    \/ a.member_id < b.member_id
    \/ a.member_id = b.member_id /\ a.relation_pos < b.relation_pos
    \/ /\ a.member_id = b.member_id /\ a.relation_pos = b.relation_pos
       /\ a.member_num < b.member_num

InsertElement(s, v) ==
    LET k == Cardinality({i \in 1 .. Len(s) : ElementLess(s[i], v)})
    IN SubSeq(s, 1, k) \o <<v>> \o SubSeq(s, k + 1, Len(s))

RECURSIVE SortElements(_)
SortElements(s) ==
    IF s = <<>> THEN <<>> ELSE InsertElement(SortElements(Tail(s)), Head(s))

\* has_locations_on_ways(reader.header()) fails for a pbf file
no_locations_on_ways(in) == in.pbf /\ ~in.locations_on_ways

\* read_relations after the last relation: prepare_for_lookup sorts the
\* members database; main() opens the Reader of the way pass and returns 2
\* when a pbf file has no locations on ways
PrepareForLookup ==
    /\ pc = "relations"
    /\ pos > Len(input.relations)
    /\ member_db' = [member_db EXCEPT !.elements = SortElements(@)]
    /\ pc' = IF no_locations_on_ways(input) THEN "exit" ELSE "ways"
    /\ exit_status' = IF no_locations_on_ways(input) THEN 2 ELSE exit_status
    /\ pos' = 1
    /\ UNCHANGED <<input, options, stats_db, m_stats, relations_db, m_outputs,
                   resolved, m_timestamp, argv>>
    /\ UNCHANGED <<colocVars, orphanVars>>

\* MembersDatabase::find: the positions of the elements with the member id
find(elements, id) ==
    SelectSeq([i \in 1 .. Len(elements) |-> i],
              LAMBDA i : elements[i].member_id = id)

\* RelationsManager::get_member_way: the way the members database holds for
\* the id; the empty set stands for the null pointer
get_member_way(mdb, id) ==
    IF find(mdb.elements, id) = <<>> THEN {}
    ELSE {w \in mdb.stash : w.id = id}

\* what complete_relation notes of one member: the history of the lookups
\* and of the two tag comparisons
Evaluation(relation, i, found, way, same, conflicting) ==
    [relation |-> relation.id,
     member_num |-> i - 1,
     ref |-> relation.members[i].ref,
     role |-> relation.members[i].role,
     found |-> found,
     way |-> way,
     same_tags |-> same,
     conflicting |-> conflicting]

\* CheckMPManager::complete_relation, the loop over the members from member
\* i on.  A way that get_member_way does not find is a null pointer, and
\* way->tags() ends the program.
RECURSIVE check_members(_, _, _)
check_members(relation, i, acc) ==
    IF i > Len(relation.members) \/ acc.crashed THEN acc
    ELSE LET member == relation.members[i]
             found == get_member_way(acc.member_db, member.ref)
         IN IF member.type # "way" THEN check_members(relation, i + 1, acc)
            ELSE IF found = {}
            THEN [acc EXCEPT
                    !.crashed = TRUE,
                    !.resolved = Append(@, Evaluation(relation, i, FALSE, <<>>,
                                                      FALSE, FALSE))]
            ELSE LET way == CHOOSE w \in found : TRUE
                     same == compare_tags(relation.tags, way.tags)
                     conflicting ==
                         /\ ~same
                         /\ is_closed(way)
                         /\ member.role # "inner"
                         /\ conflicting_tags(relation.tags, way.tags)
                 IN check_members(relation, i + 1,
                      [acc EXCEPT
                        !.m_stats =
                            IF same
                            THEN Inc(@, "multipolygon_relation_members_with_same_tags")
                            ELSE IF conflicting
                            THEN Inc(@, "multipolygon_relation_members_with_conflicting_tags")
                            ELSE @,
                        !.marks = IF same \/ conflicting
                                  THEN Append(@, positive_id(way.id))
                                  ELSE @,
                        !.same_tags = @ \/ same,
                        !.same_keys = @ \/ conflicting,
                        !.resolved = Append(@, Evaluation(relation, i, TRUE, way,
                                                          same, conflicting))])

\* the marks complete_relation hands to the output of the same tags
same_tags_marks(acc) == acc.marks

\* the marks complete_relation hands to the output of the same keys
same_keys_marks(acc) == acc.marks

\* CheckMPManager::complete_relation on the state m of the manager
complete_relation(m, relation) ==
    IF match_none_of(relation.tags)
    THEN [m EXCEPT !.m_stats = Inc(@, "multipolygon_relations_without_tags")]
    ELSE LET acc == check_members(relation, 1,
                        [marks |-> <<>>, same_tags |-> FALSE,
                         same_keys |-> FALSE, m_stats |-> m.m_stats,
                         resolved |-> m.resolved, crashed |-> FALSE,
                         member_db |-> m.member_db])
             out1 == IF acc.marks # <<>> /\ acc.same_tags
                     THEN [m.m_outputs EXCEPT ![SameTags] =
                              Output_add(@, relation, 1, same_tags_marks(acc))]
                     ELSE m.m_outputs
             out2 == IF acc.marks # <<>> /\ acc.same_keys
                     THEN [out1 EXCEPT ![SameKeys] =
                              Output_add(@, relation, 1, same_keys_marks(acc))]
                     ELSE out1
         IN [m EXCEPT !.m_stats = acc.m_stats,
                      !.resolved = acc.resolved,
                      !.crashed = acc.crashed,
                      !.m_outputs = IF acc.crashed THEN @ ELSE out2]

\* MembersDatabase::remove(member_id, relation_id): the stashed way is
\* dropped with its last element that is not removed
remove(mdb, rdb, member_id, relation_id) ==
    LET range == find(mdb.elements, member_id)
        live == SelectSeq(range, LAMBDA i : ~mdb.elements[i].removed)
        match == SelectSeq(live, LAMBDA i :
                     rdb[mdb.elements[i].relation_pos].relation.id = relation_id)
    IN IF range = <<>> THEN mdb
       ELSE [elements |-> IF match = <<>> THEN mdb.elements
                          ELSE [mdb.elements EXCEPT ![match[1]].removed = TRUE],
             stash |-> IF Len(live) = 1
                       THEN {w \in mdb.stash : w.id # member_id}
                       ELSE mdb.stash]

\* RelationsManager::handle_complete, the loop that removes the members of
\* the relation from member i on
RECURSIVE remove_members(_, _, _, _)
remove_members(mdb, rdb, relation, i) ==
    IF i > Len(relation.members) THEN mdb
    ELSE remove_members(
             IF relation.members[i].ref # 0 /\ relation.members[i].type = "way"
             THEN remove(mdb, rdb, relation.members[i].ref, relation.id)
             ELSE mdb,
             rdb, relation, i + 1)

\* RelationsManager::handle_complete for the relation at position rpos
handle_complete(m, rpos) ==
    LET relation == m.relations_db[rpos].relation
        m1 == complete_relation(m, relation)
    IN IF m1.crashed THEN m1
       ELSE [m1 EXCEPT
               !.member_db = remove_members(@, m.relations_db, relation, 1),
               !.relations_db[rpos].removed = TRUE]

\* MembersDatabase::add, the loop over the elements of the way from the
\* k-th on: the relation of each element has one pending member less and is
\* complete with none left
RECURSIVE add_loop(_, _, _)
add_loop(m, range, k) ==
    IF k > Len(range) \/ m.crashed THEN m
    ELSE LET rpos == m.member_db.elements[range[k]].relation_pos
             m1 == [m EXCEPT !.relations_db[rpos].members = @ - 1]
         IN add_loop(IF m1.relations_db[rpos].members = 0
                     THEN handle_complete(m1, rpos)
                     ELSE m1,
                     range, k + 1)

\* MembersDatabase::add as RelationsManager::way calls it
add(m, way) ==
    LET range == find(m.member_db.elements, way.id)
    IN IF range = <<>> THEN m
       ELSE add_loop([m EXCEPT !.member_db.stash = @ \cup {way}], range, 1)

\* LastTimestampHandler::osm_object
osm_object(timestamp, object) ==
    IF object.timestamp > timestamp THEN object.timestamp ELSE timestamp

\* osmium::apply(buffer, last_timestamp_handler, manager.handler()) for one
\* way of the way pass, with every complete_relation the way sets off
HandleWay ==
    /\ pc = "ways"
    /\ pos <= Len(input.ways)
    /\ m_timestamp' = osm_object(m_timestamp, input.ways[pos])
    /\ LET m == add([relations_db |-> relations_db, member_db |-> member_db,
                     m_stats |-> m_stats, m_outputs |-> m_outputs,
                     resolved |-> resolved, crashed |-> FALSE],
                    input.ways[pos])
       IN /\ relations_db' = m.relations_db
          /\ member_db' = m.member_db
          /\ m_stats' = m.m_stats
          /\ m_outputs' = m.m_outputs
          /\ resolved' = m.resolved
          /\ pc' = IF m.crashed THEN "crashed" ELSE "ways"
    /\ pos' = pos + 1
    /\ UNCHANGED <<input, options, stats_db>>
    /\ UNCHANGED <<colocVars, orphanVars, cmdVars>>

\* main() after the way pass: close_writer_rel and prepare of every output
PrepareOutputs ==
    /\ pc = "ways"
    /\ pos > Len(input.ways)
    /\ m_outputs' = [name \in DOMAIN m_outputs |-> Output_prepare(m_outputs[name])]
    /\ pc' = "write"
    /\ pos' = 1
    /\ UNCHANGED <<input, options, stats_db, m_stats, relations_db, member_db,
                   resolved, m_timestamp>>
    /\ UNCHANGED <<colocVars, orphanVars, cmdVars>>

(* odad-find-multipolygon-problems: write_data_files and write_stats *)

\* the objects the Reader of write_data_files yields: the file in its order
\* (the files of the model hold no nodes)
MPStream(in) ==
    [i \in 1 .. Len(in.ways) |-> [type |-> "way", object |-> in.ways[i]]]
    \o [i \in 1 .. Len(in.relations) |->
           [type |-> "relation", object |-> in.relations[i]]]

RECURSIVE IdUpperBound(_, _, _, _)
\* std::upper_bound on the len elements of s from position first on
IdUpperBound(s, first, len, v) ==
    IF len = 0 THEN first
    ELSE LET half == len \div 2
             mid == first + half
         IN IF v < s[mid]
            THEN IdUpperBound(s, first, half, v)
            ELSE IdUpperBound(s, mid + 1, len - half - 1, v)

RECURSIVE IdEqualRange(_, _, _, _)
\* std::equal_range on the len elements of s from position first on, as the
\* library computes it on a vector that need not be sorted: <<first, last>>
IdEqualRange(s, first, len, v) ==
    IF len = 0 THEN <<first, first>>
    ELSE LET half == len \div 2
             mid == first + half
         IN IF s[mid] < v
            THEN IdEqualRange(s, mid + 1, len - half - 1, v)
            ELSE IF v < s[mid]
            THEN IdEqualRange(s, first, half, v)
            ELSE <<IdLowerBound(s, first, half, v),
                   IdUpperBound(s, mid + 1, len - half - 1, v)>>

\* Output::check_mark
check_mark(output, rel_id, obj_id) ==
    /\ rel_id \in DOMAIN output.m_marks
    /\ LET vec == output.m_marks[rel_id]
           range == IdEqualRange(vec, 1, Len(vec), obj_id)
       IN range[1] # range[2]

\* Output::add_features_to_layers for a way: one feature for each mapping of
\* the range, none when the linestring can not be built
line_features(output, way, range) ==
    IF ~output.lines \/ geometry_error(way) THEN <<>>
    ELSE [k \in 1 .. Len(range) |->
             [rel_id |-> range[k][2],
              way_id |-> way.id,
              timestamp |-> way.timestamp,
              mark |-> check_mark(output, range[k][2], positive_id(way.id))]]

\* Output::write_to_all: std::equal_range over the id map of the kind with
\* the member ids as keys, and what is written for the mappings of the range
write_to_all(output, type, object) ==
    LET map == output.m_id_maps[type]
        member_ids == [i \in 1 .. Len(map) |-> map[i][1]]
        bounds == IdEqualRange(member_ids, 1, Len(map), positive_id(object.id))
        range == SubSeq(map, bounds[1], bounds[2] - 1)
    IN IF range = <<>> THEN output
       ELSE [output EXCEPT
               !.m_writer_all = Append(@, object),
               !.m_layer_lines =
                   IF type = "way" THEN @ \o line_features(output, object, range)
                   ELSE @]

\* write_data_files: one object of the file is offered to every output
WriteObject ==
    /\ pc = "write"
    /\ pos <= Len(MPStream(input))
    /\ m_outputs' =
           [name \in DOMAIN m_outputs |->
               write_to_all(m_outputs[name], MPStream(input)[pos].type,
                            MPStream(input)[pos].object)]
    /\ pos' = pos + 1
    /\ UNCHANGED <<pc, input, options, m_stats, relations_db, member_db,
                   resolved, m_timestamp, stats_db>>
    /\ UNCHANGED <<colocVars, orphanVars, cmdVars>>

\* the rows main() hands to write_stats: the counters of the manager under
\* the names of the stats table, then the counter of every output
stats_rows(stats, outputs) ==
    <<<<"multipolygon_relations", stats.multipolygon_relations>>,
      <<"multipolygon_relations_without_tags",
        stats.multipolygon_relations_without_tags>>,
      <<"multipolygon_relation_members", stats.multipolygon_relation_members>>,
      <<"multipolygon_relation_way_members",
        stats.multipolygon_relation_way_members>>,
      <<"multipolygon_relation_members_with_same_tags",
        stats.multipolygon_relation_members_with_same_tags>>,
      <<"multipolygon_relation_members_with_same_keys",
        stats.multipolygon_relation_members_with_conflicting_tags>>,
      <<SameKeys, outputs[SameKeys].m_counter>>,
      <<SameTags, outputs[SameTags].m_counter>>>>

\* write_stats: every row is inserted with the date last_time
write_stats(timestamp, rows) ==
    [k \in 1 .. Len(rows) |->
        [date |-> timestamp, key |-> rows[k][1], value |-> rows[k][2]]]

\* main() after the last object of write_data_files: the writers are closed
\* and write_stats inserts the rows with the timestamp of the
\* LastTimestampHandler; main returns 0
WriteStats ==
    /\ pc = "write"
    /\ pos > Len(MPStream(input))
    /\ stats_db' = write_stats(m_timestamp, stats_rows(m_stats, m_outputs))
    /\ pc' = "done"
    /\ exit_status' = 0
    /\ UNCHANGED <<pos, input, options, m_stats, relations_db, member_db,
                   m_outputs, resolved, m_timestamp, argv>>
    /\ UNCHANGED <<colocVars, orphanVars>>

(* Inputs of odad-find-multipolygon-problems *)

MPType == Tag("type", "multipolygon")

\* the tag lists of the relations
RelationTags ==
    {<<MPType>>,
     <<MPType, Tag("landuse", "forest")>>,
     <<MPType, Tag("landuse", "forest"), Tag("name", "x")>>,
     <<Tag("landuse", "forest")>>}

\* the tag lists of the ways
WayTags ==
    {<<>>,
     <<Tag("landuse", "forest")>>,
     <<Tag("source", "s"), Tag("landuse", "meadow")>>,
     <<Tag("landuse", "forest"), Tag("name", "y")>>,
     <<Tag("name", "x"), Tag("landuse", "meadow")>>}

\* the node references of a closed and of an open way
Ring(closed) == IF closed THEN <<1, 2, 3, 1>> ELSE <<1, 2, 3>>

\* the header of the input file
Headers ==
    {[pbf |-> TRUE, locations_on_ways |-> TRUE],
     [pbf |-> TRUE, locations_on_ways |-> FALSE],
     [pbf |-> FALSE, locations_on_ways |-> FALSE]}

MPFile(header, relations, ways) ==
    [pbf |-> header.pbf, locations_on_ways |-> header.locations_on_ways,
     ways |-> ways, relations |-> relations]

\* the members of the relations of MemberFiles
StructMembers ==
    {MPMember("way", 1, "outer"), MPMember("way", -2, "outer"),
     MPMember("way", 1, "inner"), MPMember("node", 1, "outer")}

ForestWay(id) ==
    MPWay(id, positive_id(id), <<Tag("landuse", "forest")>>, Ring(TRUE))

\* files that differ in the members and the tags of relation 1, in a second
\* relation and in the ways that are in the file
MemberFiles ==
    {MPFile(h, <<MPRelation(1, 3, rt, m)>> \o r2, w) :
        h \in Headers,
        rt \in {<<MPType, Tag("landuse", "forest")>>, <<MPType>>},
        m \in SeqsUpTo(StructMembers, MaxMembers),
        r2 \in {<<>>}
               \cup {<<MPRelation(2, 3, <<MPType, Tag("landuse", "forest")>>, m2)>> :
                        m2 \in {<<MPMember("way", 1, "outer")>>,
                                <<MPMember("way", -2, "inner"),
                                  MPMember("way", 1, "outer")>>}},
        w \in {[i \in 1 .. Len(ids) |-> ForestWay(ids[i])] :
                  ids \in InjSeqs({1, -2})}}

\* files with relation 1 and its members way 1 and way -2 that differ in
\* the tags, the roles and the rings
TagFiles ==
    {MPFile([pbf |-> TRUE, locations_on_ways |-> TRUE],
            <<MPRelation(1, 3, rt, <<MPMember("way", 1, role1),
                                    MPMember("way", -2, role2)>>)>>,
            <<MPWay(-2, 2, wt2, Ring(TRUE)), MPWay(1, 1, wt1, Ring(closed1))>>) :
        rt \in RelationTags, wt1 \in WayTags, wt2 \in WayTags,
        role1 \in {"outer", "inner"}, role2 \in {"outer", "inner"},
        closed1 \in BOOLEAN}

\* files with relation 1 and its members way 1 and way -2, both with the
\* tags of the relation; way 1 may have a single point, or one point twice
DegenerateFiles ==
    {MPFile([pbf |-> TRUE, locations_on_ways |-> TRUE],
            <<MPRelation(1, 3, <<MPType, Tag("landuse", "forest")>>,
                         <<MPMember("way", 1, "outer"),
                           MPMember("way", -2, "outer")>>)>>,
            <<MPWay(-2, 2, <<Tag("landuse", "forest")>>, n2),
              MPWay(1, 1, <<Tag("landuse", "forest")>>, n1)>>) :
        n1 \in {<<1>>, <<1, 1>>, Ring(TRUE)},
        n2 \in {<<1>>, <<1, 1>>, Ring(TRUE)}}

\* main() after parse_command_line: the outputs are added, the manager is
\* constructed and read_relations opens the file
InitMP ==
    /\ input \in MemberFiles \cup TagFiles \cup DegenerateFiles
    /\ pc = "relations"
    /\ pos = 1
    /\ options = <<>>
    /\ m_stats = ZeroStats
    /\ relations_db = <<>>
    /\ member_db = [elements |-> <<>>, stash |-> {}]
    /\ m_outputs = AddOutputs
    /\ resolved = <<>>
    /\ m_timestamp = 0
    /\ stats_db = <<>>
    /\ Running
    /\ index = <<>>
    /\ m_writers = <<>>
    /\ m_layers = <<>>
    /\ m_mapping = <<>>
    /\ m_data = <<>>
    /\ files = <<>>
    /\ locations = <<>>
    /\ m_node_ids = <<>>
    /\ m_nodes_done = FALSE
    /\ m_writer = <<>>

NextMP ==
    \/ ReadRelation
    \/ PrepareForLookup
    \/ HandleWay
    \/ PrepareOutputs
    \/ WriteObject
    \/ WriteStats

\* odad-find-multipolygon-problems: the relation pass and the way pass
SpecMP == InitMP /\ [][NextMP]_vars

(* Claims about CheckMPManager *)

\* C7: whenever complete_relation evaluates a relation, every member of the
\* kind way that it looks up with get_member_way is found in the members
\* database, also when a relation lists a way more than once; no run ends
\* in the use of a null pointer.
C7_MemberAlwaysResolved ==
    /\ pc # "crashed"
    /\ \A k \in 1 .. Len(resolved) : resolved[k].found

\* a relation that lists way 1 twice was evaluated and way 1 was found for
\* both members
C7_Witness ==
    \E j, k \in 1 .. Len(resolved) :
        /\ j < k
        /\ resolved[j].relation = resolved[k].relation
        /\ resolved[j].ref = 1 /\ resolved[k].ref = 1
        /\ resolved[j].found /\ resolved[k].found

\* the relation of the input with the id
RelationOf(id) == CHOOSE r \in Range(input.relations) : r.id = id

KeysOf(mapping) == {t[1] : t \in mapping}

\* the filtered tags of the way have the keys of the filtered tags of the
\* relation, as many of them, and another value for at least one key
SameKeysOtherValue(rtags, wtags) ==
    /\ KeysOf(FilteredMapping(wtags)) = KeysOf(FilteredMapping(rtags))
    /\ Cardinality(FilteredMapping(wtags)) = Cardinality(FilteredMapping(rtags))
    /\ FilteredMapping(wtags) # FilteredMapping(rtags)

\* C9 (as claimed): complete_relation counts a way member as having
\* conflicting tags exactly when the way is closed, its role is not "inner",
\* and its filtered tags have the key set and the cardinality of the
\* filtered tags of the relation and differ from them in at least one value.
C9_ConflictingIffSameKeysOtherValue ==
    \A k \in 1 .. Len(resolved) :
        resolved[k].found =>
            (resolved[k].conflicting <=>
                /\ is_closed(resolved[k].way)
                /\ resolved[k].role # "inner"
                /\ SameKeysOtherValue(RelationOf(resolved[k].relation).tags,
                                      resolved[k].way.tags))

\* the positive ids of the members of the relation that complete_relation
\* evaluated with the result that the field names
MembersWith(id, field) ==
    {positive_id(resolved[k].ref) :
        k \in {j \in 1 .. Len(resolved) :
                  resolved[j].relation = id /\ resolved[j][field]}}

\* the marks of every relation written to the output are the ids of its
\* members with the result that the field names
MarksAre(name, field) ==
    \A k \in 1 .. Len(m_outputs[name].m_writer_rel) :
        LET relation == m_outputs[name].m_writer_rel[k]
        IN /\ positive_id(relation.id) \in DOMAIN m_outputs[name].m_marks
           /\ Range(m_outputs[name].m_marks[positive_id(relation.id)])
                  = MembersWith(relation.id, field)

\* C10 (as claimed): the marks of a relation in the output of the same tags
\* are exactly the positive ids of its way members with the same tags, and
\* the marks in the output of the same keys are exactly the ids of the
\* members with conflicting tags, also for a relation that has both.
C10_MarksPerChannel ==
    pc \in {"ways", "write"} =>
        /\ MarksAre(SameTags, "same_tags")
        /\ MarksAre(SameKeys, "conflicting")

\* C11 (as claimed): for every relation added to an output with marks and
\* every way member of it written in the data-file pass, the field mark of
\* the line feature is true if and only if the positive id of the way is one
\* of the marks recorded for the relation, in whatever order
\* complete_relation pushed the ids.
C11_MarkIffRecorded ==
    \A name \in DOMAIN m_outputs :
        \A k \in 1 .. Len(m_outputs[name].m_layer_lines) :
            LET feature == m_outputs[name].m_layer_lines[k]
            IN feature.rel_id \in DOMAIN m_outputs[name].m_marks =>
                  (feature.mark <=>
                      positive_id(feature.way_id) \in
                          Range(m_outputs[name].m_marks[feature.rel_id]))

\* the positions of the relations database whose relation complete_relation
\* has evaluated and whose tags all have a key MPFilter excludes
LegacyEvaluated ==
    {rpos \in 1 .. Len(relations_db) :
        /\ relations_db[rpos].removed
        /\ \A i \in 1 .. Len(relations_db[rpos].relation.tags) :
               relations_db[rpos].relation.tags[i][1]
                   \in {"type", "created_by", "source", "note"}}

\* the positions of the relations database whose relation has only tags
\* with a key MPFilter excludes
LegacyCandidates ==
    {rpos \in 1 .. Len(relations_db) :
        \A i \in 1 .. Len(relations_db[rpos].relation.tags) :
            relations_db[rpos].relation.tags[i][1]
                \in {"type", "created_by", "source", "note"}}

\* the number of member evaluations with the result that the field names
Evaluations(field) ==
    Cardinality({k \in 1 .. Len(resolved) : resolved[k][field]})

\* no member of the relation was evaluated, the relation is in no output
\* and has no marks
NotEvaluated(relation) ==
    /\ \A k \in 1 .. Len(resolved) : resolved[k].relation # relation.id
    /\ \A name \in DOMAIN m_outputs :
          /\ \A k \in 1 .. Len(m_outputs[name].m_writer_rel) :
                 m_outputs[name].m_writer_rel[k].id # relation.id
          /\ positive_id(relation.id) \notin DOMAIN m_outputs[name].m_marks

---------------------------------------------------------------------------
(* odad-find-relation-problems: CheckHandler                               *)
(*                                                                         *)
(* index holds m_indexes, m_writers the relations written to each of the   *)
(* relation-*.osm.pbf files, m_outputs the Outputs of write_results.       *)

\* bound: largest number of members of a relation in MemberRelations
MaxRelMembers == 2

\* min_members_of_large_relations, scaled down from 1000
min_members_of_large_relations == 3

\* the files the writers of CheckHandler write
Channels ==
    {"no_member", "no_tag", "only_type_tag", "no_type_tag", "large",
     "multipolygon_non_way_member", "multipolygon_unknown_role",
     "multipolygon_empty_role", "multipolygon_area_tag",
     "multipolygon_boundary_administrative_tag", "multipolygon_old_style",
     "multipolygon_single_way", "multipolygon_duplicate_way",
     "boundary_empty_role", "boundary_duplicate_way", "boundary_area_tag",
     "boundary_no_boundary_tag"}

\* the counters of stats_type
Counters ==
    {"relation_members", "no_members", "no_tag", "only_type_tag",
     "no_type_tag", "large", "multipolygon_node_member",
     "multipolygon_relation_member", "multipolygon_unknown_role",
     "multipolygon_empty_role", "multipolygon_area_tag",
     "multipolygon_boundary_administrative_tag", "multipolygon_old_style",
     "multipolygon_single_way", "multipolygon_duplicate_way",
     "boundary_empty_role", "boundary_duplicate_way", "boundary_area_tag",
     "boundary_no_boundary_tag"}

\* indexes_type after its construction: id_maps are std::map per kind of
\* member (member id -> relation id), the *_rels are IdSetSmall
EmptyIndexes ==
    [k \in {"no_tag", "only_type_tag", "no_type_tag"} |->
        [maps |-> [t \in {"node", "way", "relation"} |-> <<>>],
         rels |-> <<>>]]

\* ++m_stats.counter by n
Count(h, counter, n) == [h EXCEPT !.m_stats[counter] = @ + n]

\* m_writer_channel(relation)
Write(h, channel, relation) ==
    [h EXCEPT !.m_writers[channel] = Append(@, relation)]

\* ++m_stats.counter; m_writer_channel(relation);
Flag(h, counter, channel, relation) ==
    Write(Count(h, counter, 1), channel, relation)

\* std::map::insert: the pair is entered unless the key has an entry
map_insert(map, key, value) ==
    [k \in DOMAIN map \cup {key} |->
        IF k \in DOMAIN map THEN map[k] ELSE value]

RECURSIVE insert_members(_, _, _)
\* CheckHandler::add_members_to_index from member i on
insert_members(maps, relation, i) ==
    IF i > Len(relation.members) THEN maps
    ELSE insert_members(
             [maps EXCEPT ![relation.members[i].type] =
                 map_insert(@, positive_id(relation.members[i].ref),
                            positive_id(relation.id))],
             relation, i + 1)

\* m_indexes.k_rels.set(relation.positive_id());
\* add_members_to_index(relation, m_indexes.k);
Index(h, k, relation) ==
    [h EXCEPT
        !.m_indexes[k].rels = IdSetSmall_set(@, positive_id(relation.id)),
        !.m_indexes[k].maps = insert_members(@, relation, 1)]

\* TagList::get_value_by_key is not null
has_key(tags, key) == \E i \in 1 .. Len(tags) : tags[i][1] = key

\* TagList::get_value_by_key: the value of the first tag with the key
get_value_by_key(tags, key) ==
    tags[CHOOSE i \in 1 .. Len(tags) :
            /\ tags[i][1] = key
            /\ \A j \in 1 .. i - 1 : tags[j][1] # key][2]

\* the positions of the members of the relation, for the loops over
\* relation.members()
MemberPositions(relation) == 1 .. Len(relation.members)

\* std::adjacent_find: the position of the first element that is equal to
\* its successor, Len(s) + 1 (the end) when there is none
adjacent_find(s) ==
    IF \E i \in 1 .. Len(s) - 1 : s[i] = s[i + 1]
    THEN CHOOSE i \in 1 .. Len(s) - 1 :
             /\ s[i] = s[i + 1]
             /\ \A j \in 1 .. i - 1 : s[j] # s[j + 1]
    ELSE Len(s) + 1

\* find_duplicate_ways: the vector way_ids after std::sort
way_ids(relation) ==
    LET ways == SelectSeq(relation.members, LAMBDA m : m.type = "way")
    IN SortIds([i \in 1 .. Len(ways) |-> ways[i].ref])

\* find_duplicate_ways that finds nothing
find_duplicate_ways_never(relation) == FALSE

\* CheckHandler::find_duplicate_ways
find_duplicate_ways(relation) ==
    adjacent_find(way_ids(relation)) # Len(way_ids(relation)) + 1

\* the test of multipolygon_relation for a way member with an unknown role
unknown_role(member) ==
    member.type = "way" /\ member.role \notin {"", "inner", "outer"}

\* the test of the role without the test of the kind of the member
empty_role_of_any_kind(member) == member.role = ""

\* the test of multipolygon_relation for a way member with an empty role
empty_way_role(member) == member.type = "way" /\ member.role = ""

\* the test in front of the return of multipolygon_relation without its
\* second operand
old_style_single_tag(relation) == Len(relation.tags) = 1

\* the test in front of the return of multipolygon_relation
old_style(relation) ==
    \/ Len(relation.tags) = 1
    \/ \A i \in 1 .. Len(relation.tags) : ~MPFilter(relation.tags[i])

\* multipolygon_relation, the loop over the members and the three writes
\* that follow it
multipolygon_members(h, relation) ==
    LET nodes == Cardinality({i \in MemberPositions(relation) :
                                 relation.members[i].type = "node"})
        rels == Cardinality({i \in MemberPositions(relation) :
                                relation.members[i].type = "relation"})
        empty == Cardinality({i \in MemberPositions(relation) :
                                 empty_way_role(relation.members[i])})
        unknown == Cardinality({i \in MemberPositions(relation) :
                                   unknown_role(relation.members[i])})
        h1 == Count(Count(Count(Count(h,
                  "multipolygon_node_member", nodes),
                  "multipolygon_relation_member", rels),
                  "multipolygon_empty_role", empty),
                  "multipolygon_unknown_role", unknown)
        h2 == IF nodes + rels # 0
              THEN Write(h1, "multipolygon_non_way_member", relation) ELSE h1
        h3 == IF unknown # 0
              THEN Write(h2, "multipolygon_unknown_role", relation) ELSE h2
    IN IF empty # 0
       THEN Write(h3, "multipolygon_empty_role", relation) ELSE h3

\* multipolygon_relation, the tests of the tags behind the old-style test
multipolygon_tags(h, relation) ==
    LET h1 == IF has_key(relation.tags, "area")
              THEN Flag(h, "multipolygon_area_tag", "multipolygon_area_tag",
                        relation)
              ELSE h
    IN IF /\ has_key(relation.tags, "boundary")
          /\ get_value_by_key(relation.tags, "boundary") = "administrative"
       THEN Flag(h1, "multipolygon_boundary_administrative_tag",
                 "multipolygon_boundary_administrative_tag", relation)
       ELSE h1

\* CheckHandler::multipolygon_relation
multipolygon_relation(h, relation) ==
    LET h1 == multipolygon_members(h, relation)
        h2 == IF /\ Len(relation.members) = 1
                 /\ relation.members[1].type = "way"
              THEN Flag(h1, "multipolygon_single_way",
                        "multipolygon_single_way", relation)
              ELSE h1
        h3 == IF find_duplicate_ways(relation)
              THEN Flag(h2, "multipolygon_duplicate_way",
                        "multipolygon_duplicate_way", relation)
              ELSE h2
    IN IF old_style(relation)
       THEN Flag(h3, "multipolygon_old_style", "multipolygon_old_style",
                 relation)
       ELSE multipolygon_tags(h3, relation)

\* the tests of the multipolygon relations applied to a boundary relation
boundary_relation_as_multipolygon(h, relation) ==
    multipolygon_relation(h, relation)

\* CheckHandler::boundary_relation
boundary_relation(h, relation) ==
    LET empty_role == Cardinality({i \in MemberPositions(relation) :
                                      relation.members[i].role = ""})
        h1 == IF empty_role # 0
              THEN Write(Count(h, "boundary_empty_role", empty_role),
                         "boundary_empty_role", relation)
              ELSE h
        h2 == IF find_duplicate_ways(relation)
              THEN Flag(h1, "boundary_duplicate_way", "boundary_duplicate_way",
                        relation)
              ELSE h1
        h3 == IF has_key(relation.tags, "area")
              THEN Flag(h2, "boundary_area_tag", "boundary_area_tag", relation)
              ELSE h2
    IN IF ~has_key(relation.tags, "boundary")
       THEN Flag(h3, "boundary_no_boundary_tag", "boundary_no_boundary_tag",
                 relation)
       ELSE h3

\* the tag tests of CheckHandler::relation returning after the
\* only-type-tag test as they do after the other two
relation_tags_return(h, relation) ==
    IF relation.tags = <<>>
    THEN Index(Flag(h, "no_tag", "no_tag", relation), "no_tag", relation)
    ELSE IF ~has_key(relation.tags, "type")
    THEN Index(Flag(h, "no_type_tag", "no_type_tag", relation),
               "no_type_tag", relation)
    ELSE IF Len(relation.tags) = 1
    THEN Index(Flag(h, "only_type_tag", "only_type_tag", relation),
               "only_type_tag", relation)
    ELSE LET type == get_value_by_key(relation.tags, "type")
         IN IF type = "multipolygon" THEN multipolygon_relation(h, relation)
            ELSE IF type = "boundary" THEN boundary_relation(h, relation)
            ELSE h

\* CheckHandler::relation behind the tests of the members: the tests of
\* the tags
relation_tags(h, relation) ==
    IF relation.tags = <<>>
    THEN Index(Flag(h, "no_tag", "no_tag", relation), "no_tag", relation)
    ELSE IF ~has_key(relation.tags, "type")
    THEN Index(Flag(h, "no_type_tag", "no_type_tag", relation),
               "no_type_tag", relation)
    ELSE LET h1 == IF Len(relation.tags) = 1
                   THEN Index(Flag(h, "only_type_tag", "only_type_tag",
                                   relation),
                              "only_type_tag", relation)
                   ELSE h
             type == get_value_by_key(relation.tags, "type")
         IN IF type = "multipolygon" THEN multipolygon_relation(h1, relation)
            ELSE IF type = "boundary" THEN boundary_relation(h1, relation)
            ELSE h1

\* CheckHandler::relation leaving out only the relations later than the
\* cutoff
CheckHandler_relation_later(h, relation, opts) ==
    IF relation.timestamp > opts.before_time THEN h
    ELSE LET h1 == IF relation.members = <<>>
                   THEN Flag(h, "no_members", "no_member", relation)
                   ELSE h
             h2 == Count(h1, "relation_members", Len(relation.members))
             h3 == IF Len(relation.members) >= min_members_of_large_relations
                   THEN Flag(h2, "large", "large", relation)
                   ELSE h2
         IN relation_tags(h3, relation)

\* CheckHandler::relation
CheckHandler_relation(h, relation, opts) ==
    IF relation.timestamp >= opts.before_time THEN h
    ELSE LET h1 == IF relation.members = <<>>
                   THEN Flag(h, "no_members", "no_member", relation)
                   ELSE h
             h2 == Count(h1, "relation_members", Len(relation.members))
             h3 == IF Len(relation.members) >= min_members_of_large_relations
                   THEN Flag(h2, "large", "large", relation)
                   ELSE h2
         IN relation_tags(h3, relation)

\* osmium::apply(buffer, last_timestamp_handler, handler) for one relation
\* of the input
CheckRelationProblems ==
    /\ pc = "problems"
    /\ pos <= Len(input.relations)
    /\ m_timestamp' = osm_object(m_timestamp, input.relations[pos])
    /\ LET h == CheckHandler_relation(
                    [m_stats |-> m_stats, m_writers |-> m_writers,
                     m_indexes |-> index],
                    input.relations[pos], options)
       IN /\ m_stats' = h.m_stats
          /\ m_writers' = h.m_writers
          /\ index' = h.m_indexes
    /\ pos' = pos + 1
    /\ UNCHANGED <<pc, input, options, colocVars, cmdVars, m_layers, relations_db,
                   member_db, m_outputs, resolved, stats_db>>

\* Output::Output of write_results
NewResultOutput == [m_writer |-> <<>>, m_layer_points |-> <<>>, m_layer_lines |-> <<>>]

\* the objects the Reader of write_results yields
AllObjects(in) ==
    [i \in 1 .. Len(in.nodes) |-> [type |-> "node", object |-> in.nodes[i]]]
    \o [i \in 1 .. Len(in.ways) |-> [type |-> "way", object |-> in.ways[i]]]
    \o [i \in 1 .. Len(in.relations) |->
           [type |-> "relation", object |-> in.relations[i]]]

\* Output::add_layers: the feature of the object for the relation, none for
\* a relation, and none when the geometry can not be built
add_layers(output, type, object, rel_id) ==
    IF type = "node" /\ object.location
    THEN [output EXCEPT !.m_layer_points =
             Append(@, [rel_id |-> rel_id, node_id |-> object.id,
                        timestamp |-> object.timestamp])]
    ELSE IF type = "way" /\ ~geometry_error(object)
    THEN [output EXCEPT !.m_layer_lines =
             Append(@, [rel_id |-> rel_id, way_id |-> object.id,
                        timestamp |-> object.timestamp])]
    ELSE output

\* Output::operator() of odad-find-relation-problems
Output_call(output, type, object, maps) ==
    IF positive_id(object.id) \in DOMAIN maps[type]
    THEN add_layers([output EXCEPT !.m_writer = Append(@, object)],
                    type, object, maps[type][positive_id(object.id)])
    ELSE output

\* main() after the last relation: handler.close(), and write_results
\* constructs its three outputs and opens the Reader
CloseHandler ==
    /\ pc = "problems"
    /\ pos > Len(input.relations)
    /\ m_outputs' = [k \in {"no_tag", "only_type_tag", "no_type_tag"} |->
                        NewResultOutput]
    /\ pc' = "results"
    /\ pos' = 1
    /\ UNCHANGED <<input, options, m_stats, colocVars, orphanVars, cmdVars,
                   relations_db, member_db, resolved, m_timestamp, stats_db>>

\* write_results: one object of the file is offered to the three outputs
WriteResult ==
    /\ pc = "results"
    /\ pos <= Len(AllObjects(input))
    /\ m_outputs' =
           [k \in DOMAIN m_outputs |->
               Output_call(m_outputs[k], AllObjects(input)[pos].type,
                           AllObjects(input)[pos].object, index[k].maps)]
    /\ pos' = pos + 1
    /\ UNCHANGED <<pc, input, options, m_stats, colocVars, orphanVars, cmdVars,
                   relations_db, member_db, resolved, m_timestamp, stats_db>>

\* the name of the row of the stats table for the counter
stat_name(counter) ==
    IF counter = "relation_members" THEN "relation_member_count"
    ELSE IF counter \in {"no_members", "no_tag", "only_type_tag",
                         "no_type_tag", "large"}
    THEN IF counter = "no_members" THEN "relation_no_members"
         ELSE IF counter = "no_tag" THEN "relation_no_tag"
         ELSE IF counter = "only_type_tag" THEN "relation_only_type_tag"
         ELSE IF counter = "no_type_tag" THEN "relation_no_type_tag"
         ELSE "relation_large"
    ELSE counter

\* the counters in the order main() adds them to the stats table
CounterOrder ==
    <<"relation_members", "no_members", "no_tag", "only_type_tag",
      "no_type_tag", "large", "multipolygon_node_member",
      "multipolygon_relation_member", "multipolygon_unknown_role",
      "multipolygon_empty_role", "multipolygon_area_tag",
      "multipolygon_boundary_administrative_tag", "multipolygon_old_style",
      "multipolygon_single_way", "multipolygon_duplicate_way",
      "boundary_empty_role", "boundary_duplicate_way", "boundary_area_tag",
      "boundary_no_boundary_tag">>

\* main() after write_results: write_stats with the timestamp of the
\* LastTimestampHandler; main returns 0
WriteRelationStats ==
    /\ pc = "results"
    /\ pos > Len(AllObjects(input))
    /\ stats_db' = write_stats(m_timestamp,
                       [k \in 1 .. Len(CounterOrder) |->
                           <<stat_name(CounterOrder[k]), m_stats[CounterOrder[k]]>>])
    /\ pc' = "done"
    /\ exit_status' = 0
    /\ UNCHANGED <<pos, input, options, m_stats, colocVars, orphanVars, argv,
                   relations_db, member_db, m_outputs, resolved, m_timestamp>>

(* Inputs of odad-find-relation-problems *)

RNode(id, ts, location) == [id |-> id, timestamp |-> ts, location |-> location]

\* the tags of a relation behind its type tag: a selection of note, area,
\* boundary and landuse in this order
ExtraTags ==
    {SelectSeq(<<Tag("note", "n"), Tag("area", "yes"), Tag("boundary", b),
                 Tag("landuse", "forest")>>,
               LAMBDA t : t[1] \in keys) :
        keys \in SUBSET {"note", "area", "boundary", "landuse"},
        b \in {"administrative", "postal"}}

\* the tag lists of the relations: no type tag or one of three types, then
\* the other tags
RelationTagLists ==
    {type \o extra :
        type \in {<<>>, <<MPType>>, <<Tag("type", "boundary")>>,
                  <<Tag("type", "route")>>},
        extra \in ExtraTags}

\* the members of the relations of MemberRelations
RelMembers ==
    {MPMember("way", 5, "outer"), MPMember("way", 5, ""),
     MPMember("way", 7, "inner"), MPMember("way", -5, "x"),
     MPMember("node", 5, ""), MPMember("relation", 5, "outer")}

\* relation 1 with every tag list and a few member lists
TagRelations ==
    {MPRelation(1, 1, t, m) :
        t \in RelationTagLists,
        m \in {<<>>, <<MPMember("way", 5, "outer")>>,
               <<MPMember("way", 5, "outer"), MPMember("way", 7, "inner")>>}}

\* relation 1 with a few tag lists and every member list
MemberRelations ==
    {MPRelation(1, 1, t, m) :
        t \in {<<MPType, Tag("landuse", "forest")>>, <<MPType>>,
               <<Tag("type", "boundary"), Tag("boundary", "administrative")>>},
        m \in SeqsUpTo(RelMembers, MaxRelMembers)}

\* relation 1 with way members that repeat an id
DuplicateRelations ==
    {MPRelation(1, 1, t, [i \in 1 .. Len(ids) |-> MPMember(k[i], ids[i], role)]) :
        t \in {<<MPType, Tag("landuse", "forest")>>,
               <<Tag("type", "boundary"), Tag("boundary", "administrative")>>,
               <<Tag("type", "boundary"), Tag("area", "yes")>>},
        role \in {"outer", ""},
        ids \in {<<5, 7, 5>>, <<5, 5, 5>>, <<5, 5, 7, 7>>, <<5, -5, 7>>},
        k \in {<<"way", "way", "way", "way">>, <<"node", "way", "relation", "way">>}}

\* relation 1 with as many members as make a relation large, and the tag
\* lists of the three tag tests
LargeRelations ==
    {MPRelation(1, 1, t,
                [i \in 1 .. min_members_of_large_relations |->
                    MPMember("way", 5, "outer")]) :
        t \in {<<>>, <<Tag("note", "n")>>, <<MPType>>,
               <<Tag("type", "boundary")>>, <<Tag("type", "route")>>}}

\* the files: node 5, way 5 and way 7 (a single point, no linestring),
\* relation 1 and, in some files, relation 2 without tags
RelationFiles ==
    {[nodes |-> <<RNode(5, 1, TRUE)>>,
      ways |-> <<MPWay(5, 1, <<>>, <<1, 2>>), MPWay(7, 4, <<>>, <<1>>)>>,
      relations |-> <<r>> \o r2] :
        r \in TagRelations \cup MemberRelations \cup DuplicateRelations
                 \cup LargeRelations,
        r2 \in {<<>>, <<MPRelation(2, 2, <<>>, <<MPMember("way", 5, "")>>)>>}}

\* main() after parse_command_line: the Reader of the relations is open and
\* CheckHandler is constructed
InitRelations ==
    /\ input \in RelationFiles
    /\ options \in {[before_time |-> t] : t \in {1, 2, end_of_time}}
    /\ pc = "problems"
    /\ pos = 1
    /\ m_stats = [c \in Counters |-> 0]
    /\ m_writers = [c \in Channels |-> <<>>]
    /\ m_layers = <<>>
    /\ m_mapping = <<>>
    /\ index = EmptyIndexes
    /\ Running
    /\ NoManager
    /\ m_data = <<>>
    /\ files = <<>>
    /\ locations = <<>>
    /\ m_node_ids = <<>>
    /\ m_nodes_done = FALSE
    /\ m_writer = <<>>

NextRelations ==
    \/ CheckRelationProblems
    \/ CloseHandler
    \/ WriteResult
    \/ WriteRelationStats

\* odad-find-relation-problems: the relation pass, write_results and
\* write_stats
SpecRelations == InitRelations /\ [][NextRelations]_vars

(* Claims on odad-find-relation-problems *)

\* the number of relations CheckHandler::relation has been called for
RelationsDone == IF pc = "problems" THEN pos - 1 ELSE Len(input.relations)

\* the relations of the file behind the time filter whose type is the one
\* given
EvaluatedOfType(type) ==
    {i \in 1 .. RelationsDone :
        /\ input.relations[i].timestamp < options.before_time
        /\ has_key(input.relations[i].tags, "type")
        /\ get_value_by_key(input.relations[i].tags, "type") = type}

\* how many times the relation i of the file is in the file of the channel
TimesWritten(channel, i) ==
    Cardinality({k \in 1 .. Len(m_writers[channel]) :
                    m_writers[channel][k] = input.relations[i]})

\* the channel holds each relation of the set once and nothing else, and
\* the counter is the size of the set
FlaggedAre(counter, channel, S) ==
    /\ m_stats[counter] = Cardinality(S)
    /\ Len(m_writers[channel]) = Cardinality(S)
    /\ \A i \in S : TimesWritten(channel, i) = 1

\* the tags of the relation without the keys type, created_by, source and
\* note are empty
LegacyStyle(i) ==
    \A k \in 1 .. Len(input.relations[i].tags) :
        input.relations[i].tags[k][1] \in {"type", "created_by", "source", "note"}

\* the relation has exactly one member, a way
SingleWay(i) ==
    /\ Len(input.relations[i].members) = 1
    /\ input.relations[i].members[1].type = "way"

\* some id is the ref of two way members of the relation
DuplicatedIds(i) ==
    LET m == input.relations[i].members
    IN {m[a].ref : a \in {a \in 1 .. Len(m) :
           /\ m[a].type = "way"
           /\ \E b \in 1 .. Len(m) : b # a /\ m[b].type = "way" /\ m[b].ref = m[a].ref}}

\* the relation has a member that is not a way
NonWayMember(i) ==
    \E k \in 1 .. Len(input.relations[i].members) :
        input.relations[i].members[k].type # "way"

\* C13: a multipolygon relation is flagged old-style if and only if its
\* tags without the keys type, created_by, source and note are empty; such
\* a relation changes neither counter nor channel of the area tag test and
\* of the boundary=administrative test, and the tests of the members, of
\* the single way and of the duplicate ways apply to it as to any other
C13_OldStyleIffNoOtherTags ==
    LET mp == EvaluatedOfType("multipolygon")
        legacy == {i \in mp : LegacyStyle(i)}
    IN /\ FlaggedAre("multipolygon_old_style", "multipolygon_old_style", legacy)
       /\ FlaggedAre("multipolygon_area_tag", "multipolygon_area_tag",
              {i \in mp \ legacy : has_key(input.relations[i].tags, "area")})
       /\ FlaggedAre("multipolygon_boundary_administrative_tag",
              "multipolygon_boundary_administrative_tag",
              {i \in mp \ legacy :
                  Tag("boundary", "administrative") \in Range(input.relations[i].tags)})
       /\ \A i \in legacy :
              /\ TimesWritten("multipolygon_area_tag", i) = 0
              /\ TimesWritten("multipolygon_boundary_administrative_tag", i) = 0
              /\ TimesWritten("multipolygon_single_way", i) = 1 <=> SingleWay(i)
              /\ TimesWritten("multipolygon_duplicate_way", i) = 1
                     <=> DuplicatedIds(i) # {}
              /\ TimesWritten("multipolygon_non_way_member", i) = 1
                     <=> NonWayMember(i)

\* a relation with the tags type=multipolygon and note=n and a single way
\* as its member is in the files of the old-style and of the single-way
\* channel
C13_Witness ==
    /\ pc = "done"
    /\ \E i \in EvaluatedOfType("multipolygon") :
           /\ LegacyStyle(i)
           /\ Len(input.relations[i].tags) = 2
           /\ TimesWritten("multipolygon_old_style", i) = 1
           /\ TimesWritten("multipolygon_single_way", i) = 1

\* the ids std::adjacent_find of find_duplicate_ways points at: the first
\* id of way_ids that is equal to its successor, none at the end
LocatedIds(i) ==
    LET ids == way_ids(input.relations[i])
    IN IF adjacent_find(ids) = Len(ids) + 1 THEN {}
       ELSE {ids[adjacent_find(ids)]}

\* the channel and the counter of the duplicate ways of the relations of
\* the type hold the relations with an id that two way members share, once
DuplicateFlagged(type) ==
    FlaggedAre(type \o "_duplicate_way", type \o "_duplicate_way",
               {i \in EvaluatedOfType(type) : DuplicatedIds(i) # {}})

RECURSIVE SumOf(_, _)
\* the sum of f over the set S
SumOf(f, S) ==
    IF S = {} THEN 0
    ELSE LET x == CHOOSE x \in S : TRUE IN f[x] + SumOf(f, S \ {x})

\* the number of members of the relation i of the kinds and with a role of
\* the set
MembersOf(i, kinds, roles) ==
    Cardinality({k \in 1 .. Len(input.relations[i].members) :
                    /\ input.relations[i].members[k].type \in kinds
                    /\ input.relations[i].members[k].role \in roles})

\* the roles of the members of the files
Roles == {"", "inner", "outer", "x"}

\* the counter is the number of members of the kinds with a role of the set
\* over the relations of S, and the channel holds once each relation of S
\* with such a member and nothing else
MembersFlagged(counters, channel, S, kinds, roles) ==
    /\ SumOf(m_stats, counters)
           = SumOf([i \in S |-> MembersOf(i, kinds, roles)], S)
    /\ \A i \in S :
           TimesWritten(channel, i)
               = IF MembersOf(i, kinds, roles) > 0 THEN 1 ELSE 0
    /\ \A k \in 1 .. Len(m_writers[channel]) :
           \E i \in S : m_writers[channel][k] = input.relations[i]

\* C15: over the multipolygon relations evaluated, every way member with
\* an empty role counts as empty role, every way member with a role other
\* than "", "inner" and "outer" as unknown role, every node member as node
\* member and every relation member as relation member whatever its role;
\* a relation is written to the empty-role, unknown-role and
\* non-way-member channel once if it has such a member and not otherwise
C15_RoleAndKindChecks ==
    LET mp == EvaluatedOfType("multipolygon")
    IN /\ MembersFlagged({"multipolygon_empty_role"},
              "multipolygon_empty_role", mp, {"way"}, {""})
       /\ MembersFlagged({"multipolygon_unknown_role"},
              "multipolygon_unknown_role", mp, {"way"},
              Roles \ {"", "inner", "outer"})
       /\ MembersFlagged({"multipolygon_node_member",
                          "multipolygon_relation_member"},
              "multipolygon_non_way_member", mp, {"node", "relation"}, Roles)
       /\ m_stats["multipolygon_node_member"]
              = SumOf([i \in mp |-> MembersOf(i, {"node"}, Roles)], mp)

\* a multipolygon relation with a node member with an empty role and a way
\* member with the role x is in the files of the unknown-role and of the
\* non-way-member channel and not in the file of the empty-role channel
C15_Witness ==
    /\ pc = "done"
    /\ \E i \in EvaluatedOfType("multipolygon") :
           /\ MembersOf(i, {"node"}, {""}) = 1
           /\ MembersOf(i, {"way"}, {"x"}) = 1
           /\ TimesWritten("multipolygon_unknown_role", i) = 1
           /\ TimesWritten("multipolygon_non_way_member", i) = 1
           /\ TimesWritten("multipolygon_empty_role", i) = 0

\* the channels and the counters of multipolygon_relation
MultipolygonChannels ==
    {"multipolygon_non_way_member", "multipolygon_node_member",
     "multipolygon_relation_member", "multipolygon_unknown_role",
     "multipolygon_empty_role", "multipolygon_area_tag",
     "multipolygon_boundary_administrative_tag", "multipolygon_old_style",
     "multipolygon_single_way", "multipolygon_duplicate_way"}

\* C16: over the relations with type=boundary evaluated, the empty-role
\* counter is the number of members of any kind with an empty role and the
\* relation is written once to that channel iff it has one; the relation is
\* flagged duplicate-way iff two way members share an id, area-tag iff it
\* has the key area, no-boundary-tag iff it has no key boundary; nothing
\* is written to a multipolygon channel for it
C16_BoundaryChecks ==
    LET b == EvaluatedOfType("boundary")
    IN /\ MembersFlagged({"boundary_empty_role"}, "boundary_empty_role", b,
              {"node", "way", "relation"}, {""})
       /\ DuplicateFlagged("boundary")
       /\ FlaggedAre("boundary_area_tag", "boundary_area_tag",
              {i \in b : has_key(input.relations[i].tags, "area")})
       /\ FlaggedAre("boundary_no_boundary_tag", "boundary_no_boundary_tag",
              {i \in b : ~has_key(input.relations[i].tags, "boundary")})
       /\ \A i \in b :
              \A c \in Channels \cap MultipolygonChannels : TimesWritten(c, i) = 0
       /\ EvaluatedOfType("multipolygon") = {} =>
              \A c \in Counters \cap MultipolygonChannels : m_stats[c] = 0

\* a boundary relation with the four flags: a member with an empty role,
\* two way members with the same id, the key area and no key boundary
C16_Witness ==
    /\ pc = "done"
    /\ \E i \in EvaluatedOfType("boundary") :
           /\ TimesWritten("boundary_empty_role", i) = 1
           /\ TimesWritten("boundary_duplicate_way", i) = 1
           /\ TimesWritten("boundary_area_tag", i) = 1
           /\ TimesWritten("boundary_no_boundary_tag", i) = 1
           /\ m_stats["boundary_empty_role"] > 1

---------------------------------------------------------------------------
(* odad-find-orphans and odad-find-multipolygon-problems side by side *)

InitGeometry == InitOrphans \/ InitMP

NextGeometry == NextOrphans \/ NextMP

\* a run of odad-find-orphans or a run of odad-find-multipolygon-problems
SpecGeometry == InitGeometry /\ [][NextGeometry]_vars

\* the way has fewer than two different points: no linestring
NoLinestring(way) == Cardinality(Range(way.nodes)) < 2

\* the ways of the file the second pass of odad-find-orphans has handled
\* and that qualify as orphans
OrphanWaysHandled ==
    {i \in 1 .. Len(input.ways) :
        /\ pc = "orphans" => Len(input.nodes) + i < pos
        /\ is_orphan("way", input.ways[i], index, options)}

\* the ways of the file write_data_files has offered to the outputs
WaysOffered ==
    {i \in 1 .. Len(input.ways) : pc = "write" => i < pos}

\* how many times x is in the sequence s
TimesIn(s, x) == Cardinality({k \in 1 .. Len(s) : s[k] = x})

\* in the second pass of odad-find-orphans every qualifying way handled so
\* far is written and counted once, and has one feature unless it has no
\* linestring
OrphanWaysRecovered ==
    pc \in {"orphans", "done"} /\ m_layers # <<>> =>
        /\ m_stats.orphan_ways = Cardinality(OrphanWaysHandled)
        /\ Len(m_writers.way) = Cardinality(OrphanWaysHandled)
        /\ \A i \in OrphanWaysHandled :
               /\ TimesIn(m_writers.way, input.ways[i].id) = 1
               /\ TimesIn([k \in 1 .. Len(m_layers.orphan_ways) |->
                              m_layers.orphan_ways[k].way_id],
                          input.ways[i].id)
                      = IF NoLinestring(input.ways[i]) THEN 0 ELSE 1
        /\ exit_status = -1

\* in write_data_files every way offered so far that is a member of a
\* relation of an output is written to its file once, and has one feature
\* for each of these relations unless it has no linestring
MemberWaysRecovered ==
    pc \in {"write", "done"} /\ m_layers = <<>> =>
        /\ \A name \in DOMAIN m_outputs : \A i \in WaysOffered :
               LET way == input.ways[i]
                   rels == {k \in 1 .. Len(m_outputs[name].m_id_maps.way) :
                               m_outputs[name].m_id_maps.way[k][1]
                                   = positive_id(way.id)}
               IN /\ TimesIn(m_outputs[name].m_writer_all, way)
                         = IF rels = {} THEN 0 ELSE 1
                  /\ TimesIn([k \in 1 .. Len(m_outputs[name].m_layer_lines) |->
                                 m_outputs[name].m_layer_lines[k].way_id],
                             way.id)
                         = IF NoLinestring(way) THEN 0 ELSE Cardinality(rels)
        /\ exit_status = IF pc = "done" THEN 0 ELSE -1

\* C17: when the linestring of a qualifying orphan way, or of a member way
\* in an Output, can not be built, only its feature is missing: the way is
\* written (and the orphan counted), the ways behind it are handled as
\* usual, and the run ends without an error
C17_GeometryErrorRecoverable ==
    /\ OrphanWaysRecovered
    /\ MemberWaysRecovered

\* odad-find-orphans is done: way 1 without a linestring is written and
\* counted and has no feature, way 2 behind it has its feature
C17_Witness ==
    /\ pc = "done"
    /\ m_layers # <<>>
    /\ OrphanWaysHandled = {1, 2}
    /\ NoLinestring(input.ways[1])
    /\ m_writers.way = <<1, 2>>
    /\ m_stats.orphan_ways = 2
    /\ Len(m_layers.orphan_ways) = 1
    /\ m_layers.orphan_ways[1].way_id = 2

\* the largest timestamp of the objects of the file, start_of_time (0) for
\* a file without objects
LastTimestamp(in) ==
    LET ts == {in.ways[i].timestamp : i \in 1 .. Len(in.ways)}
              \cup {in.relations[i].timestamp : i \in 1 .. Len(in.relations)}
              \cup {0}
    IN CHOOSE t \in ts : \A u \in ts : u <= t

\* C18: the rows of the stats table of odad-find-multipolygon-problems
\* carry the largest timestamp of the objects the run has read, relations
\* included
C18_StatsDateIsLastTimestamp ==
    pc = "done" /\ m_layers = <<>> =>
        \A k \in 1 .. Len(stats_db) : stats_db[k].date = LastTimestamp(input)

---------------------------------------------------------------------------
(* the three tools with more than one pass side by side *)

InitPasses == InitNodes \/ InitOrphans \/ InitMP

NextPasses == NextNodes \/ NextOrphans \/ NextMP

\* a run of odad-find-colocated-nodes, of odad-find-orphans or of
\* odad-find-multipolygon-problems
SpecPasses == InitPasses /\ [][NextPasses]_vars

\* the positive ids of the kind that the ways and the relations of the
\* file refer to
ReferencedIds(kind) ==
    UNION {{positive_id(input.relations[i].members[k].ref) :
               k \in {k \in 1 .. Len(input.relations[i].members) :
                         input.relations[i].members[k].type = kind}} :
           i \in 1 .. Len(input.relations)}
    \cup IF kind # "node" THEN {}
         ELSE UNION {{positive_id(input.ways[i].nodes[k]) :
                         k \in 1 .. Len(input.ways[i].nodes)} :
                     i \in 1 .. Len(input.ways)}

\* odad-find-orphans: nothing is tested or written while the index is
\* built, and in the second pass the index holds every reference of the
\* file
OrphanPassesOrdered ==
    /\ pc = "index" =>
           /\ m_writers = <<>>
           /\ m_stats = [orphan_nodes |-> 0, orphan_ways |-> 0,
                         orphan_relations |-> 0]
    /\ pc = "orphans" =>
           \A kind \in {"node", "way", "relation"} :
               index[kind] = ReferencedIds(kind)

\* odad-find-colocated-nodes: nothing is tested or written before
\* find_locations has returned, and in the second pass the bucket files are
\* gone and the locations are those of the whole file
ColocatedPassesOrdered ==
    /\ pc \in {"start", "extract", "find"} =>
           /\ m_writer = <<>>
           /\ m_node_ids = <<>>
           /\ m_stats.colocated_nodes = 0
    /\ pc = "check" =>
           /\ files = NoFiles
           /\ Range(locations) = DuplicateLocs

\* the relations of the file with the tag type=multipolygon
Candidates ==
    {i \in 1 .. Len(input.relations) : MPType \in Range(input.relations[i].tags)}

\* odad-find-multipolygon-problems: no way is handled before read_relations
\* has read every relation
RelationScanFirst ==
    /\ pc = "relations" =>
           /\ member_db.stash = {}
           /\ resolved = <<>>
           /\ m_timestamp = 0
           /\ m_stats.multipolygon_relations_without_tags = 0
    /\ pc = "ways" =>
           m_stats.multipolygon_relations = Cardinality(Candidates)

\* the way members of the relation with the id have all been read by the
\* way pass
MembersRead(id) ==
    \A i \in Candidates :
        input.relations[i].id = id =>
            \A k \in 1 .. Len(input.relations[i].members) :
                input.relations[i].members[k].type = "way" =>
                    \E w \in 1 .. Len(input.ways) :
                        /\ pc = "ways" => w < pos
                        /\ input.ways[w].id = input.relations[i].members[k].ref

Accumulator == ScanBuckets(files, 0, num_buckets - 1)

\* C20 as stated: the scan of the sorted bucket appends the coordinate of a
\* run of two or more equal records once, so the vector is free of
\* duplicates in front of the final sort and unique, which changes nothing
\* but the order
C20_OncePerRun ==
    pc = "find" =>
        /\ \A l \in AllLocs :
               TimesIn(Accumulator, l) = IF Multiplicity(l) >= 2 THEN 1 ELSE 0
        /\ SortUnique_sort_only(Accumulator) = find_locations(files)

\* C20: the scan of the sorted bucket appends the coordinate of a run of n
\* equal records n div 2 times (once for 2 and 3, twice for 4 and 5), and
\* the final sort and unique leaves one of them
C20_OncePerPair ==
    /\ pc = "find" =>
           /\ \A l \in AllLocs :
                  TimesIn(Accumulator, l) = Multiplicity(l) \div 2
           /\ Range(Accumulator) \subseteq AllLocs
    /\ pc = "check" =>
           \A l \in AllLocs :
               TimesIn(locations, l) = IF Multiplicity(l) >= 2 THEN 1 ELSE 0

\* find_locations has returned for a file of four Points at one coordinate:
\* the coordinate is in the result once
C20_Witness ==
    /\ pc = "check"
    /\ Len(input.nodes) = 4
    /\ \E l \in AllLocs : Multiplicity(l) = 4 /\ locations = <<l>>

\* the coordinates of the Points 1 .. n of the file that pass the time
\* filter and whose x value has the low 8 bits b, in the order of the file
Assigned(b, n) ==
    LET all == [i \in 1 .. n |-> input.nodes[i]]
        kept == SelectSeq(all, LAMBDA node :
                    /\ node.timestamp < options.before_time
                    /\ node.location[1] % 256 = b)
    IN [i \in 1 .. Len(kept) |-> kept[i].location]

\* C21: while extract_locations reads the Points, the file of every bucket
\* followed by its buffer is the sequence of the coordinates read so far
\* that pass the time filter and have the low 8 bits of x equal to the
\* number of the bucket; a buffer holds fewer than max_bucket_size entries
\* and a file a multiple of max_bucket_size; when extract_locations has
\* returned no buffer is left and every file holds the coordinates of its
\* bucket, each once
C21_BucketsHoldEveryCoordinateOnce ==
    /\ pc = "extract" =>
           \A b \in 0 .. 255 :
               /\ files[b] \o m_data[b] = Assigned(b, pos - 1)
               /\ Len(m_data[b]) < max_bucket_size
               /\ Len(files[b]) % max_bucket_size = 0
    /\ pc = "find" =>
           /\ m_data = <<>>
           /\ DOMAIN files = 0 .. 255
           /\ \A b \in 0 .. 255 : files[b] = Assigned(b, Len(input.nodes))

\* extract_locations has returned: a Point was left out by the cutoff, and
\* the file of a bucket holds the coordinates of a buffer that set flushed
\* when it was full
C21_Witness ==
    /\ pc = "find"
    /\ \E i \in 1 .. Len(input.nodes) :
           input.nodes[i].timestamp >= options.before_time
    /\ \E b \in 0 .. 255 : Len(files[b]) = max_bucket_size

---------------------------------------------------------------------------
(* odad-find-colocated-nodes: the life of the bucket files *)

\* inputs whose Points fall into no bucket, one bucket (0) or two (0, 255)
BucketFiles ==
    {[i \in 1 .. Len(s) |-> Node(i, IF i = 3 THEN 1 ELSE 0, s[i])] :
        s \in {<<>>,
               << <<0, 1>> >>,
               << <<0, 1>>, <<0, 1>> >>,
               << <<-1, 0>>, <<0, 1>>, <<-1, 0>> >>,
               << <<-1, 0>>, <<-1, 0>>, <<256, 0>>, <<0, 1>>, <<256, 0>> >>,
               << <<0, 1>>, <<256, 0>>, <<0, 1>>, <<-1, 0>>, <<-1, 0>> >>}}

InitBuckets ==
    /\ input \in {[nodes |-> n, ways |-> <<>>, relations |-> <<>>] :
                     n \in BucketFiles}
    /\ options \in {[before_time |-> t] : t \in Cutoffs}
    /\ ColocStart

\* both passes of odad-find-colocated-nodes, find_locations bucket by bucket
NextBuckets ==
    \/ ExtractOpen
    \/ ExtractNode
    \/ ExtractFlush
    \/ FindBegin
    \/ OpenBucketFile
    \/ ScanAndUnlink
    \/ FindReturn
    \/ CheckNode
    \/ CheckDone

SpecBuckets == InitBuckets /\ [][NextBuckets]_vars

\* C22: all 256 bucket files exist, empty, before the first Point is read;
\* during the extraction every file exists, none is mapped and a step only
\* appends to a file; in find_locations, when bucket pos is about to be
\* opened, exactly the files of the buckets pos .. 255 exist and nothing is
\* mapped, and while bucket pos is scanned they still exist, unchanged, and
\* no other bucket is mapped; after find_locations has returned no bucket
\* file exists
C22_BucketFileLifecycle ==
    /\ [](/\ pc = "start" => DOMAIN files = {}
          /\ pc \in {"extract", "find"} =>
                 /\ DOMAIN files = 0 .. 255
                 /\ DOMAIN m_mapping = {}
          /\ pc = "extract" /\ pos = 1 => \A b \in 0 .. 255 : files[b] = <<>>
          /\ pc = "open" =>
                 /\ DOMAIN files = pos .. 255
                 /\ DOMAIN m_mapping = {}
          /\ pc = "scan" =>
                 /\ DOMAIN files = pos .. 255
                 /\ DOMAIN m_mapping \subseteq {pos}
                 /\ pos \in DOMAIN m_mapping => m_mapping[pos] = files[pos]
          /\ pc \in {"find", "open", "scan"} =>
                 \A b \in DOMAIN files :
                     files[b] = Assigned(b, Len(input.nodes))
          /\ pc \in {"check", "done"} =>
                 /\ DOMAIN files = {}
                 /\ DOMAIN m_mapping = {})
    /\ [][/\ pc = "extract" /\ pc' \in {"extract", "find"} =>
                 \A b \in 0 .. 255 :
                     /\ Len(files[b]) <= Len(files'[b])
                     /\ \A k \in 1 .. Len(files[b]) : files'[b][k] = files[b][k]
          /\ pc \in {"find", "open", "scan"} =>
                 \A b \in DOMAIN files' : files'[b] = files[b]]_vars

\* the last bucket is mapped and scanned: its file is not empty and is the
\* only one left, the files of all buckets before it are removed, among
\* them the file of bucket 0, which was not empty, and empty ones
C22_Witness ==
    /\ pc = "scan"
    /\ pos = 255
    /\ DOMAIN files = {255}
    /\ DOMAIN m_mapping = {255}
    /\ Len(m_mapping[255]) >= 2
    /\ Assigned(0, Len(input.nodes)) # <<>>
    /\ Assigned(1, Len(input.nodes)) = <<>>

\* C23: no step of the second pass of odad-find-orphans, the handlers of
\* CheckHandler and the end of the pass, changes the answer of the index
\* for any kind and any id
C23_IndexReadOnlyInSecondPass ==
    [][pc = "orphans" =>
           \A k \in Kinds : \A id \in 1 .. 5 :
               IdSetDense_get(index'[k], id) = IdSetDense_get(index[k], id)]_vars

\* the second pass is over: it has looked up an entity that is in the index
\* and has written an orphan that is not
C23_Witness ==
    /\ pc = "done"
    /\ Len(m_writers.node) > 0
    /\ \E i \in 1 .. Len(input.nodes) :
           IdSetDense_get(index.node, positive_id(input.nodes[i].id))
    /\ index.way # {}

\* the relations read so far that pass the time filter
Passing ==
    {i \in 1 .. RelationsDone :
        input.relations[i].timestamp < options.before_time}

\* the channels of the multipolygon and of the boundary rules
RuleChannels ==
    Channels \ {"no_member", "no_tag", "only_type_tag", "no_type_tag", "large"}

\* C24: of the relations that pass the time filter, the no-tag channel
\* holds those without tags, the no-type-tag channel those with tags but
\* without the key type, the only-type-tag channel those whose only tag has
\* the key type, so no relation is in two of them; a relation of the first
\* two is in no channel of the multipolygon or boundary rules; a relation
\* of the third with type=multipolygon is flagged old-style and gets the
\* single-way test; the no-members and the large channel hold the relations
\* without members and with min_members_of_large_relations members or more,
\* whatever their tags
C24_TagChannelsExclusive ==
    LET tags(i) == input.relations[i].tags
        members(i) == input.relations[i].members
        no_tag == {i \in Passing : tags(i) = <<>>}
        no_type_tag == {i \in Passing :
                           /\ tags(i) # <<>>
                           /\ \A k \in 1 .. Len(tags(i)) : tags(i)[k][1] # "type"}
        only_type_tag == {i \in Passing :
                             Len(tags(i)) = 1 /\ tags(i)[1][1] = "type"}
    IN /\ FlaggedAre("no_tag", "no_tag", no_tag)
       /\ FlaggedAre("no_type_tag", "no_type_tag", no_type_tag)
       /\ FlaggedAre("only_type_tag", "only_type_tag", only_type_tag)
       /\ \A i \in Passing :
              TimesWritten("no_tag", i) + TimesWritten("no_type_tag", i)
                  + TimesWritten("only_type_tag", i) <= 1
       /\ \A i \in no_tag \cup no_type_tag :
              \A c \in RuleChannels : TimesWritten(c, i) = 0
       /\ \A i \in only_type_tag :
              tags(i)[1][2] = "multipolygon" =>
                  /\ TimesWritten("multipolygon_old_style", i) = 1
                  /\ TimesWritten("multipolygon_single_way", i) = 1
                         <=> SingleWay(i)
       /\ FlaggedAre("no_members", "no_member",
                     {i \in Passing : members(i) = <<>>})
       /\ FlaggedAre("large", "large",
                     {i \in Passing :
                         Len(members(i)) >= min_members_of_large_relations})

\* a large relation whose only tag is type=multipolygon is in the files of
\* the large, the only-type-tag and the old-style channel, and a relation
\* without tags is in the file of the no-tag channel
C24_Witness ==
    /\ pc = "done"
    /\ \E i \in Passing :
           /\ input.relations[i].tags = <<MPType>>
           /\ TimesWritten("large", i) = 1
           /\ TimesWritten("only_type_tag", i) = 1
           /\ TimesWritten("multipolygon_old_style", i) = 1
    /\ \E i \in Passing :
           /\ input.relations[i].tags = <<>>
           /\ TimesWritten("no_tag", i) = 1

\* C25: the step of CheckHandler::relation for a relation whose timestamp
\* is the cutoff or later leaves every counter, the file of every channel
\* and the three member indexes with their sets of relation ids as they are
C25_LateRelationChangesNothing ==
    [][(/\ pc = "problems"
        /\ pos <= Len(input.relations)
        /\ input.relations[pos].timestamp >= options.before_time)
       => /\ \A c \in Counters : m_stats'[c] = m_stats[c]
          /\ \A c \in Channels : m_writers'[c] = m_writers[c]
          /\ \A k \in {"no_tag", "only_type_tag", "no_type_tag"} :
                 index'[k] = index[k]]_vars

\* relation 1 is older than the cutoff and is counted; relation 2, without
\* tags and with a member, has the timestamp of the cutoff and has been
\* handled: no_tag is 0 and only the members of relation 1 are counted
C25_Witness ==
    /\ Len(input.relations) = 2
    /\ RelationsDone = 2
    /\ input.relations[1].timestamp < options.before_time
    /\ input.relations[2].timestamp = options.before_time
    /\ input.relations[2].tags = <<>>
    /\ input.relations[1].tags # <<>>
    /\ m_stats.no_tag = 0
    /\ m_stats.relation_members = Len(input.relations[1].members)
    /\ m_stats.relation_members > 0

\* the relations that pass the time filter and are flagged in the category
InCategory(k) ==
    {i \in Passing :
        LET tags == input.relations[i].tags
        IN CASE k = "no_tag" -> tags = <<>>
             [] k = "no_type_tag" -> tags # <<>> /\ ~has_key(tags, "type")
             [] k = "only_type_tag" -> Len(tags) = 1 /\ has_key(tags, "type")}

\* the relations of the category that have the entity as a member
FlaggedWith(k, type, object) ==
    {i \in InCategory(k) :
        \E n \in 1 .. Len(input.relations[i].members) :
            /\ input.relations[i].members[n].type = type
            /\ positive_id(input.relations[i].members[n].ref)
                   = positive_id(object.id)}

\* C26: after write_results, for each of the three categories, a Point or
\* Line that is a member of a relation flagged in the category is in the
\* data file of the category once, and, when its geometry can be built, the
\* layer holds one feature of it with rel_id = R for every flagged relation
\* R of the category that has it as a member
C26_FeaturePerFlaggedRelation ==
    pc = "done" =>
        \A k \in {"no_tag", "only_type_tag", "no_type_tag"} :
            /\ \A n \in 1 .. Len(input.nodes) :
                   LET node == input.nodes[n]
                   IN \A i \in FlaggedWith(k, "node", node) :
                          /\ TimesIn(m_outputs[k].m_writer, node) = 1
                          /\ node.location =>
                                 TimesIn(m_outputs[k].m_layer_points,
                                         [rel_id |-> input.relations[i].id,
                                          node_id |-> node.id,
                                          timestamp |-> node.timestamp]) = 1
            /\ \A n \in 1 .. Len(input.ways) :
                   LET way == input.ways[n]
                   IN \A i \in FlaggedWith(k, "way", way) :
                          /\ TimesIn(m_outputs[k].m_writer, way) = 1
                          /\ ~geometry_error(way) =>
                                 TimesIn(m_outputs[k].m_layer_lines,
                                         [rel_id |-> input.relations[i].id,
                                          way_id |-> way.id,
                                          timestamp |-> way.timestamp]) = 1

\* the objects write_data_files has offered to the outputs so far
Offered ==
    IF pc = "write" THEN SubSeq(MPStream(input), 1, pos - 1)
    ELSE IF pc = "done" THEN MPStream(input)
    ELSE <<>>

\* how many members of the relation are the object of the kind
EntriesOf(relation, type, object) ==
    Cardinality({n \in 1 .. Len(relation.members) :
                    /\ relation.members[n].type = type
                    /\ positive_id(relation.members[n].ref)
                           = positive_id(object.id)})

\* C27: for every output and every object offered to write_to_all after
\* prepare, the object is in the all-members file once if it is, by kind
\* and positive id, a member of a relation that was passed to add, and not
\* at all otherwise; a way whose linestring can be built has, for every
\* relation passed to add, as many line features with the rel_id of the
\* relation as the relation has members that are the way
C27_WriteToAllIffMember ==
    \A name \in DOMAIN m_outputs :
        \A x \in Range(Offered) :
            LET output == m_outputs[name]
                added == output.m_writer_rel
                member == \E r \in 1 .. Len(added) :
                              EntriesOf(added[r], x.type, x.object) > 0
            IN /\ TimesIn(output.m_writer_all, x.object)
                      = IF member THEN 1 ELSE 0
               /\ (x.type = "way" /\ output.lines /\ ~geometry_error(x.object)) =>
                      \A r \in 1 .. Len(added) :
                          Cardinality({k \in 1 .. Len(output.m_layer_lines) :
                              /\ output.m_layer_lines[k].way_id = x.object.id
                              /\ output.m_layer_lines[k].rel_id
                                     = positive_id(added[r].id)})
                          = EntriesOf(added[r], "way", x.object)

\* an output got two member ways in descending order of their ids, so its id
\* map was not sorted before prepare; both ways are in the all-members file
\* and have their feature, and an object that is no member is not in it
C27_Witness ==
    /\ pc = "done"
    /\ \E name \in DOMAIN m_outputs :
           LET output == m_outputs[name]
           IN /\ \E r \in 1 .. Len(output.m_writer_rel) :
                     LET m == output.m_writer_rel[r].members
                     IN /\ Len(m) = 2
                        /\ m[1].type = "way" /\ m[2].type = "way"
                        /\ positive_id(m[1].ref) > positive_id(m[2].ref)
              /\ Len(output.m_writer_all) = 2
              /\ Len(output.m_layer_lines) = 2
              /\ Len(output.m_writer_all) < Len(MPStream(input))

\* some Line or Group of the file, whatever its timestamp and its tags,
\* lists the entity, by kind and positive id, as node reference or member
ReferencedByAny(kind, object) ==
    \/ /\ kind = "node"
       /\ \E i \in 1 .. Len(input.ways) :
              \E n \in 1 .. Len(input.ways[i].nodes) :
                  positive_id(input.ways[i].nodes[n]) = positive_id(object.id)
    \/ \E i \in 1 .. Len(input.relations) :
           \E n \in 1 .. Len(input.relations[i].members) :
               /\ input.relations[i].members[n].type = kind
               /\ positive_id(input.relations[i].members[n].ref)
                      = positive_id(object.id)

\* C28: once the index is built it answers yes for every entity that a Line
\* or Group of the file lists, also when that Line or Group has the
\* timestamp of the cutoff or a later one, has tags, or is the entity
\* itself; and no such entity the second pass has handled is written as an
\* orphan
C28_ReferencedNeverOrphan ==
    pc \in {"orphans", "done"} =>
        \A i \in 1 .. Len(Stream(input)) :
            LET e == Stream(input)[i]
            IN ReferencedByAny(e.kind, e.obj) =>
                   /\ IdSetDense_get(index[e.kind], positive_id(e.obj.id))
                   /\ WrittenOrphan(e.kind, e.obj.id) = 0

\* the run is over, with a cutoff: a Point older than the cutoff and without
\* tags is listed only by a Line that has the timestamp of the cutoff, and
\* is no orphan; and a Group older than the cutoff and without tags lists
\* only itself and is no orphan
C28_Witness ==
    /\ pc = "done"
    /\ Len(input.nodes) = 1 /\ Len(input.ways) = 1 /\ Len(input.relations) = 1
    /\ input.nodes[1].tags = <<>>
    /\ input.nodes[1].timestamp < options.before_time
    /\ input.ways[1].timestamp >= options.before_time
    /\ input.nodes[1].id \in Range(input.ways[1].nodes)
    /\ input.relations[1].tags = <<>>
    /\ input.relations[1].timestamp < options.before_time
    /\ input.relations[1].members
           = <<Member("relation", input.relations[1].id)>>
    /\ options.untagged
    /\ m_writers.node = <<>>
    /\ m_writers.relation = <<>>

\* C29: with a cutoff set, every Point the second pass of
\* odad-find-colocated-nodes has written to the colocated output has a
\* timestamp strictly before the cutoff
C29_EmittedBeforeCutoff ==
    (InSecondPass /\ options.before_time # end_of_time) =>
        \A i \in 1 .. Len(input.nodes) :
            NodeEmitted(input.nodes[i].id) =>
                input.nodes[i].timestamp < options.before_time

---------------------------------------------------------------------------
(* odad-find-colocated-nodes: the statistics of a run *)

\* Points at no, one and two shared coordinates, one of them with a Point
\* at the timestamp of the cutoff
StatNodes ==
    {<<>>,
     <<Node(1, 0, <<0, 1>>), Node(3, 1, <<0, 1>>)>>,
     <<Node(1, 0, <<0, 1>>), Node(-4, 0, <<0, 1>>)>>,
     <<Node(1, 0, <<0, 1>>), Node(3, 0, <<0, 1>>), Node(-4, 1, <<0, 1>>)>>,
     <<Node(3, 0, <<256, 0>>), Node(1, 0, <<0, 1>>), Node(-4, 0, <<0, 1>>)>>,
     <<Node(1, 0, <<0, 1>>), Node(3, 0, <<256, 0>>), Node(-4, 0, <<0, 1>>),
       Node(2, 0, <<256, 0>>)>>}

InitStats ==
    /\ input \in {[nodes |-> n, ways |-> w, relations |-> r] :
                     n \in StatNodes, w \in ColocWays, r \in ColocRelations}
    /\ options \in {[before_time |-> t] : t \in Cutoffs}
    /\ ColocStart

\* odad-find-colocated-nodes on the files of the statistics, with and
\* without a cutoff
SpecStats == InitStats /\ [][NextColoc]_vars

\* how many entities of the kind are in the output
WrittenOfKind(kind) ==
    Cardinality({k \in 1 .. Len(m_writer) : m_writer[k][1] = kind})

\* C30: at the end of a run of odad-find-colocated-nodes
\* locations_with_colocated_nodes is the number of coordinates that two or
\* more Points passing the time filter share, colocated_nodes is at least
\* twice that number, no entity is in the output twice, and each of
\* colocated_nodes, ways_referencing_colocated_nodes and
\* relations_referencing_colocated_nodes is the number of entities of its
\* kind in the output
C30_StatsConsistent ==
    pc = "done" =>
        /\ m_stats.locations_with_colocated_nodes = Cardinality(DuplicateLocs)
        /\ m_stats.locations_with_colocated_nodes = Len(locations)
        /\ m_stats.colocated_nodes >= 2 * m_stats.locations_with_colocated_nodes
        /\ \A k \in 1 .. Len(m_writer) : Written(m_writer[k][1], m_writer[k][2]) = 1
        /\ m_stats.colocated_nodes = WrittenOfKind("node")
        /\ m_stats.ways_referencing_colocated_nodes = WrittenOfKind("way")
        /\ m_stats.relations_referencing_colocated_nodes = WrittenOfKind("relation")

\* a run is over in which two coordinates are shared by two Points each: the
\* four Points, a Line with two of them and a Group with two of them are in
\* the output, the Line and the Group once
C30_Witness ==
    /\ pc = "done"
    /\ m_stats.locations_with_colocated_nodes = 2
    /\ m_stats.colocated_nodes = 4
    /\ m_stats.ways_referencing_colocated_nodes = 1
    /\ m_stats.relations_referencing_colocated_nodes = 1
    /\ Len(input.ways[1].nodes) = 2
    /\ input.relations[1].members = <<Member("node", 1), Member("node", -4)>>

====
